---- MODULE Spec2Model ----
(***************************************************************************)
(* Model of the allocation engine of pedroliman/planner:                   *)
(* planner/models.py (Project, ScheduledSlot, Schedule) and                *)
(* planner/scheduler.py (Scheduler, ProjectStats), with                    *)
(* planner/importer.py (update_projects_json) and planner/task.py (Task).  *)
(*                                                                         *)
(* Dates are day numbers; day 0 is a Monday, so date.weekday() is d % 7.   *)
(* remaining_days and renewal_days are floats in the source ("can be       *)
(* fractional for half-days"); here they are counted in half-days, so      *)
(* 5 stands for 2.5 days.  An Optional[T] value is <<>> (None) or <<v>>.   *)
(* A dict keyed by Project is a function over the set of project records:  *)
(* Project is a dataclass, so two instances with equal fields are one key. *)
(***************************************************************************)
EXTENDS Integers, Sequences, FiniteSets, TLC

VARIABLES
    base_projects,  \* Scheduler.base_projects: the caller's project list
    start_date,     \* Scheduler.start_date
    projects,       \* Scheduler.projects: the working project set
    latest,         \* the run of the last create_schedule that returned, if any
    kept,           \* an earlier run whose Schedule the caller still holds, if any
    interleaved,    \* whether a run with other arguments than kept's lies between
                    \* kept's and latest's
    result,         \* the last call: its arguments, what it raised, its statistics
    projects_file,  \* the projects list of projects.json, None while the file is absent
    task            \* a Task, None before one is constructed

vars == <<base_projects, start_date, projects, latest, kept, interleaved, result,
          projects_file, task>>

----------------------------------------------------------------------------
(* Bounds of the model *)

MaxWeeks == 2       \* num_weeks ranges over 1..MaxWeeks
MaxPriority == 1    \* priority ranges over 0..MaxPriority
MaxWeeksSparse == 3 \* num_weeks ranges over 1..MaxWeeksSparse in SpecSparse
MaxSpan == 15       \* a counted range ends at most MaxSpan days after the latest start
MaxImported == 3    \* an import lists at most MaxImported projects
MaxTime == 4        \* the clock reads 0..MaxTime

----------------------------------------------------------------------------
(* Optional values and small helpers *)

None == <<>>
Some(v) == <<v>>
Val(o) == o[1]

Range(s) == {s[i] : i \in DOMAIN s}

\* a dict or list holds values: the function f with every value computed
Stored(f) == f @@ <<>>

\* e, with v computed first: statements run in order, v before what follows it
After(v, e) == IF v = v THEN e ELSE e

Max(a, b) == IF a >= b THEN a ELSE b

Min(a, b) == IF a <= b THEN a ELSE b

RECURSIVE SumOver(_, _)
SumOver(S, f) ==
    IF S = {} THEN 0
    ELSE LET x == CHOOSE y \in S : TRUE IN f[x] + SumOver(S \ {x}, f)

\* str comparison of the project names that occur: "A" < "A (Renewal)" < "B" ...
NameOrder == <<"A", "A (Renewal)", "B", "B (Renewal)", "C", "C (Renewal)">>

NameRank(name) == CHOOSE i \in DOMAIN NameOrder : NameOrder[i] = name

\* Python's tuple comparison a < b, for tuples of the same length
RECURSIVE TupleLess(_, _)
TupleLess(a, b) ==
    IF a = <<>> \/ b = <<>> THEN FALSE
    ELSE IF Head(a) < Head(b) THEN TRUE
    ELSE IF Head(a) > Head(b) THEN FALSE
    ELSE TupleLess(Tail(a), Tail(b))

----------------------------------------------------------------------------
(* planner/models.py *)

\* a weekday numbering that starts on Sunday, as date.isoweekday() % 7 does:
\* with it in the place of Weekday, C1 fails
SundayFirst(d) == (d + 1) % 7

\* date.weekday(): Monday is 0, Sunday is 6
Weekday(d) == d % 7

\* a budget that counts a started half day as a slot: with it in the place of
\* slots_remaining, C35 fails
slots_remaining_rounded_up(project) == (project.remaining_days + 1) \div 2

\* Project.slots_remaining: int(remaining_days), truncation towards zero
slots_remaining(project) ==
    IF project.remaining_days >= 0
    THEN project.remaining_days \div 2
    ELSE -((-project.remaining_days) \div 2)

\* Project(name, end_date, remaining_days, start_date, renewal_days), without
\* the color fields, which the scheduler never reads
Project(name, end_date, remaining_days, sd, renewal_days) ==
    [name |-> name, end_date |-> end_date, remaining_days |-> remaining_days,
     start_date |-> sd, renewal_days |-> renewal_days,
     is_renewal |-> FALSE, parent_name |-> None]

\* Project.priority, the int attribute (default 0, higher is more important)
\* that scheduler.py reads and passes to Project(); models.py does not declare it
Prioritized(project, priority) ==
    [name |-> project.name, end_date |-> project.end_date,
     remaining_days |-> project.remaining_days, start_date |-> project.start_date,
     renewal_days |-> project.renewal_days, is_renewal |-> project.is_renewal,
     parent_name |-> project.parent_name, priority |-> priority]

\* ScheduledSlot(date, project=None)
ScheduledSlot(d, project) == [date |-> d, project |-> project]

\* Schedule.get_project_slots: [s for s in self.slots if s.project == project]
get_project_slots(schedule, project) ==
    SelectSeq(schedule.slots, LAMBDA s : s.project = Some(project))

\* max((s.date for s in project_slots), default=None)
MaxDate(project_slots) ==
    IF project_slots = <<>> THEN None
    ELSE Some(CHOOSE d \in {project_slots[i].date : i \in DOMAIN project_slots} :
                \A j \in DOMAIN project_slots : project_slots[j].date <= d)

----------------------------------------------------------------------------
(* planner/scheduler.py: calendar helper and renewal expander *)

\* a count that takes every range to start on a Monday: with it in the place
\* of count_weekdays_inclusive, C37 fails
count_weekdays_from_monday(start, end) ==
    IF end < start THEN 0
    ELSE LET total_days == (end - start) + 1
         IN  (total_days \div 7) * 5 + Min(total_days % 7, 5)

\* Scheduler._count_weekdays_inclusive
count_weekdays_inclusive(start, end) ==
    IF end < start THEN 0
    ELSE LET total_days == (end - start) + 1
             full_weeks == total_days \div 7
             remainder  == total_days % 7
         IN  full_weeks * 5
             + Cardinality({i \in 0..(remainder - 1) : (Weekday(start) + i) % 7 < 5})

\* schedule.end_date = self.start_date + timedelta(weeks=num_weeks)
schedule_end(num_weeks) == start_date + 7 * num_weeks

\* a renewal that runs for a year from the end of its parent and takes the
\* default priority: with it in the place of Renewal, C11 fails
Renewal_defaulted(project) ==
    [name |-> project.name \o " (Renewal)",
     end_date |-> project.end_date + 365,
     remaining_days |-> Val(project.renewal_days),
     start_date |-> Some(project.end_date + 1),
     renewal_days |-> None,
     is_renewal |-> TRUE,
     parent_name |-> Some(project.name),
     priority |-> 0]

\* the renewal built at scheduler.py:96-107
Renewal(project) ==
    [name |-> project.name \o " (Renewal)",
     end_date |-> (project.end_date + 1) + 365,
     remaining_days |-> Val(project.renewal_days),
     start_date |-> Some(project.end_date + 1),
     renewal_days |-> None,
     is_renewal |-> TRUE,
     parent_name |-> Some(project.name),
     priority |-> project.priority]

\* a test that takes any renewal_days that is set, zero included: with it in
\* the place of HasRenewal, C12 fails
HasRenewal_unbudgeted(project, num_weeks) ==
    /\ project.renewal_days # None
    /\ project.end_date + 1 <= schedule_end(num_weeks)

\* the test at scheduler.py:83 and :95
HasRenewal(project, num_weeks) ==
    /\ project.renewal_days # None
    /\ Val(project.renewal_days) > 0
    /\ project.end_date + 1 <= schedule_end(num_weeks)

RECURSIVE RenewalsOf(_, _)
RenewalsOf(ps, num_weeks) ==
    IF ps = <<>> THEN <<>>
    ELSE (IF HasRenewal(Head(ps), num_weeks) THEN <<Renewal(Head(ps))>> ELSE <<>>)
         \o RenewalsOf(Tail(ps), num_weeks)

\* renewals appended to the working set of the call before: with it in the
\* place of generate_renewal_projects, C13 fails
generate_renewal_projects_merged(num_weeks) ==
    projects \o RenewalsOf(base_projects, num_weeks)

\* Scheduler._generate_renewal_projects
generate_renewal_projects(num_weeks) ==
    base_projects \o RenewalsOf(base_projects, num_weeks)

\* the keys of a dict built by iterating ps, in insertion order
RECURSIVE DictKeys(_)
DictKeys(ps) ==
    IF ps = <<>> THEN <<>>
    ELSE LET rest == DictKeys(SelectSeq(Tail(ps), LAMBDA q : q # Head(ps)))
         IN  <<Head(ps)>> \o rest

\* budgets that carry over from the last run instead of starting from
\* slots_remaining: with them in the place of initial_work, C6 fails
carried_work(ps) ==
    Stored([p \in Range(ps) |->
        IF latest # None /\ p \in DOMAIN Val(latest).remaining_work
        THEN Val(latest).remaining_work[p]
        ELSE slots_remaining(p)])

\* remaining_work = {p: p.slots_remaining for p in self.projects}
initial_work(ps) == Stored([p \in Range(ps) |-> slots_remaining(p)])

\* remaining_work[project] -= 1
decrement(remaining_work, project) ==
    Stored([p \in DOMAIN remaining_work |->
        IF p = project THEN remaining_work[p] - 1 ELSE remaining_work[p]])

----------------------------------------------------------------------------
(* planner/scheduler.py: the paced allocator *)

\* A pacing rate or credit is a float.  Every float of a run is a multiple of
\* 2^-64 below 512 in magnitude (a rate is a quotient of day counts below 512),
\* so it is held exactly as [neg, mag], mag = <<l1, l2, l3, l4>> being the
\* digits, least significant first and in base 2^20, of |x| * 2^64.
Base == 2^20

Zero == [neg |-> FALSE, mag |-> <<0, 0, 0, 0>>]

MinusOne == [neg |-> TRUE, mag |-> <<0, 0, 0, 16>>]

MagAdd(a, b) ==
    LET s1 == a[1] + b[1]
        s2 == a[2] + b[2] + s1 \div Base
        s3 == a[3] + b[3] + s2 \div Base
        s4 == a[4] + b[4] + s3 \div Base
    IN  <<s1 % Base, s2 % Base, s3 % Base, s4>>

\* a - b for a >= b
MagSub(a, b) ==
    LET d1 == a[1] - b[1]
        b1 == IF d1 < 0 THEN 1 ELSE 0
        d2 == a[2] - b[2] - b1
        b2 == IF d2 < 0 THEN 1 ELSE 0
        d3 == a[3] - b[3] - b2
        b3 == IF d3 < 0 THEN 1 ELSE 0
    IN  <<d1 + b1 * Base, d2 + b2 * Base, d3 + b3 * Base, a[4] - b[4] - b3>>

MagLess(a, b) == TupleLess(<<a[4], a[3], a[2], a[1]>>, <<b[4], b[3], b[2], b[1]>>)

BitLength(x) == CHOOSE k \in 0..30 : x < 2^k /\ (k = 0 \/ x >= 2^(k - 1))

MagBits(a) ==
    IF a[4] > 0 THEN 60 + BitLength(a[4])
    ELSE IF a[3] > 0 THEN 40 + BitLength(a[3])
    ELSE IF a[2] > 0 THEN 20 + BitLength(a[2])
    ELSE BitLength(a[1])

\* IEEE 754 round-to-nearest-even to a 53-bit significand; sticky tells that
\* the exact value lies above a
Round53(a, sticky) ==
    LET d == MagBits(a) - 53
    IN  IF d <= 0 THEN a
        ELSE LET unit == 2^d
                 dropped == a[1] % unit
                 half == unit \div 2
                 kept_odd == IF d < 20 THEN (a[1] \div unit) % 2 = 1 ELSE a[2] % 2 = 1
                 down == <<a[1] - dropped, a[2], a[3], a[4]>>
             IN  IF dropped > half \/ (dropped = half /\ (sticky \/ kept_odd))
                 THEN MagAdd(down, <<unit % Base, unit \div Base, 0, 0>>)
                 ELSE down

\* n / float(w) for ints n >= 0 and w > 0, scheduler.py:301
FloatDiv(n, w) ==
    LET t4 == 16 * n
        q4 == t4 \div w
        q3 == ((t4 % w) * Base) \div w
        r3 == ((t4 % w) * Base) % w
        q2 == (r3 * Base) \div w
        r2 == (r3 * Base) % w
        q1 == (r2 * Base) \div w
        r1 == (r2 * Base) % w
    IN  [neg |-> FALSE, mag |-> Round53(<<q1, q2, q3, q4>>, r1 # 0)]

\* x + y, scheduler.py:321 and, with y = -1.0, scheduler.py:334
FloatAdd(x, y) ==
    IF x.neg = y.neg
    THEN [neg |-> x.neg /\ MagAdd(x.mag, y.mag) # Zero.mag,
          mag |-> Round53(MagAdd(x.mag, y.mag), FALSE)]
    ELSE IF x.mag = y.mag THEN Zero
    ELSE IF MagLess(x.mag, y.mag)
    THEN [neg |-> y.neg, mag |-> Round53(MagSub(y.mag, x.mag), FALSE)]
    ELSE [neg |-> x.neg, mag |-> Round53(MagSub(x.mag, y.mag), FALSE)]

\* x < y
FloatLess(x, y) ==
    IF x.neg # y.neg THEN x.neg
    ELSE IF x.neg THEN MagLess(y.mag, x.mag)
    ELSE MagLess(x.mag, y.mag)

\* the digits of floor(1e-9 * 2^64), for the float 1e-9 of scheduler.py:454
Epsilon == <<195081, 17592, 0, 0>>

\* a test that takes any credit above zero: with it in the place of
\* FloatPositive, C36 fails
FloatPositive_any(x) == ~x.neg /\ x.mag # <<0, 0, 0, 0>>

\* pacing_credit.get(p, 0.0) > 1e-9
FloatPositive(x) == ~x.neg /\ MagLess(Epsilon, x.mag)

\* x + y + ... + y, with y added n times
RECURSIVE AddTimes(_, _, _)
AddTimes(x, y, n) == IF n = 0 THEN x ELSE AddTimes(FloatAdd(x, y), y, n - 1)

\* effective_start = project.start_date or self.start_date
effective_start(project) ==
    IF project.start_date # None THEN Val(project.start_date) ELSE start_date

\* pacing_rate, scheduler.py:291-301
pacing_rate(ps, remaining_work) ==
    Stored([p \in Range(ps) |->
        LET total_workdays ==
                count_weekdays_inclusive(Max(start_date, effective_start(p)), p.end_date)
        IN  IF remaining_work[p] <= 0 \/ total_workdays <= 0
            THEN Zero
            ELSE FloatDiv(remaining_work[p], total_workdays)])

\* activity that ends the day before end_date: with it in the place of
\* IsActive, C7 fails
IsActive_exclusive(project, current_date, remaining_work) ==
    /\ ~(remaining_work[project] <= 0)
    /\ ~(project.start_date # None /\ current_date < Val(project.start_date))
    /\ ~(current_date >= project.end_date)

\* activity that does not wait for start_date: with it in the place of
\* IsActive, C32 fails
IsActive_unstarted(project, current_date, remaining_work) ==
    /\ ~(remaining_work[project] <= 0)
    /\ ~(current_date > project.end_date)

\* the three tests at scheduler.py:315-320 and :394-399
IsActive(project, current_date, remaining_work) ==
    /\ ~(remaining_work[project] <= 0)
    /\ ~(project.start_date # None /\ current_date < Val(project.start_date))
    /\ ~(current_date > project.end_date)

\* an accrual that goes on after a project's end_date: with it in the place
\* of accrue, C31 fails
accrue_past_deadline(ps, current_date, remaining_work, pacing_credit, rate) ==
    Stored([p \in DOMAIN pacing_credit |->
        IF /\ remaining_work[p] > 0
           /\ ~(p.start_date # None /\ current_date < Val(p.start_date))
        THEN AddTimes(pacing_credit[p], rate[p], Cardinality({i \in DOMAIN ps : ps[i] = p}))
        ELSE pacing_credit[p]])

\* the accrual loop, scheduler.py:314-321: once per element of self.projects
accrue(ps, current_date, remaining_work, pacing_credit, rate) ==
    Stored([p \in DOMAIN pacing_credit |->
        IF IsActive(p, current_date, remaining_work)
        THEN AddTimes(pacing_credit[p], rate[p], Cardinality({i \in DOMAIN ps : ps[i] = p}))
        ELSE pacing_credit[p]])

\* a charge that never takes a credit below zero: with it in the place of
\* spend, C30 fails
spend_floored(pacing_credit, project) ==
    Stored([p \in DOMAIN pacing_credit |->
        IF p = project /\ ~FloatLess(FloatAdd(pacing_credit[p], MinusOne), Zero)
        THEN FloatAdd(pacing_credit[p], MinusOne)
        ELSE IF p = project THEN Zero
        ELSE pacing_credit[p]])

\* pacing_credit[project] -= 1.0
spend(pacing_credit, project) ==
    Stored([p \in DOMAIN pacing_credit |->
        IF p = project THEN FloatAdd(pacing_credit[p], MinusOne) ELSE pacing_credit[p]])

\* sorted(seq, key=...)[0] for a stable sort: the first element with the least key
SortedFirst(seq, Less(_, _)) ==
    seq[CHOOSE i \in DOMAIN seq :
            \A j \in DOMAIN seq :
                IF j < i THEN Less(seq[i], seq[j]) ELSE ~Less(seq[j], seq[i])]

\* a sort key that starts with end_date: with it in the place of slack_key,
\* C26 fails
slack_key_by_deadline(p, current_date, remaining_work) ==
    <<p.end_date, -p.priority, NameRank(p.name),
      count_weekdays_inclusive(current_date, p.end_date) - remaining_work[p]>>

\* the sort key of must_do and forced_set, scheduler.py:416-423 and :443-449
slack_key(p, current_date, remaining_work) ==
    <<count_weekdays_inclusive(current_date, p.end_date) - remaining_work[p],
      p.end_date, -p.priority, NameRank(p.name)>>

\* the sort key of eligible, scheduler.py:460-465, without its first component
pace_key(p) == <<p.end_date, -p.priority, NameRank(p.name)>>

\* a selection whose must-do test wants work left equal to the weekdays
\* left: with it in the place of paced_choice, C24 fails
paced_choice_exact(current_date, remaining_work, pacing_credit, keys) ==
    LET active == SelectSeq(keys, LAMBDA p : IsActive(p, current_date, remaining_work))
        must_do == SelectSeq(active, LAMBDA p :
            LET workdays_left == count_weekdays_inclusive(current_date, p.end_date)
            IN  workdays_left > 0 /\ remaining_work[p] = workdays_left)
        SlackLess(p, q) == TupleLess(slack_key(p, current_date, remaining_work),
                                     slack_key(q, current_date, remaining_work))
        required(deadline) ==
            SumOver({p \in Range(active) : p.end_date <= deadline}, remaining_work)
        tripped == {deadline \in {p.end_date : p \in Range(active)} :
                       /\ count_weekdays_inclusive(current_date, deadline) > 0
                       /\ required(deadline)
                            >= count_weekdays_inclusive(current_date, deadline)}
        first_deadline == CHOOSE d \in tripped : \A e \in tripped : d <= e
        forced_set == IF tripped = {} THEN <<>>
                      ELSE SelectSeq(active, LAMBDA p : p.end_date <= first_deadline)
        eligible == SelectSeq(active, LAMBDA p : FloatPositive(pacing_credit[p]))
        PaceLess(p, q) ==
            \/ FloatLess(pacing_credit[q], pacing_credit[p])
            \/ /\ ~FloatLess(pacing_credit[p], pacing_credit[q])
               /\ TupleLess(pace_key(p), pace_key(q))
    IN  IF active = <<>> THEN [project |-> None, rule |-> "none"]
        ELSE IF must_do # <<>>
        THEN [project |-> Some(SortedFirst(must_do, SlackLess)), rule |-> "must_do"]
        ELSE IF forced_set # <<>>
        THEN [project |-> Some(SortedFirst(forced_set, SlackLess)), rule |-> "forced"]
        ELSE IF eligible = <<>> THEN [project |-> None, rule |-> "none"]
        ELSE [project |-> Some(SortedFirst(eligible, PaceLess)), rule |-> "pacing"]

\* a selection that looks at the pacing credit before the forced set: with it
\* in the place of paced_choice, C25 fails
paced_choice_credit_first(current_date, remaining_work, pacing_credit, keys) ==
    LET active == SelectSeq(keys, LAMBDA p : IsActive(p, current_date, remaining_work))
        must_do == SelectSeq(active, LAMBDA p :
            LET workdays_left == count_weekdays_inclusive(current_date, p.end_date)
            IN  workdays_left > 0 /\ remaining_work[p] >= workdays_left)
        SlackLess(p, q) == TupleLess(slack_key(p, current_date, remaining_work),
                                     slack_key(q, current_date, remaining_work))
        required(deadline) ==
            SumOver({p \in Range(active) : p.end_date <= deadline}, remaining_work)
        tripped == {deadline \in {p.end_date : p \in Range(active)} :
                       /\ count_weekdays_inclusive(current_date, deadline) > 0
                       /\ required(deadline)
                            >= count_weekdays_inclusive(current_date, deadline)}
        first_deadline == CHOOSE d \in tripped : \A e \in tripped : d <= e
        forced_set == IF tripped = {} THEN <<>>
                      ELSE SelectSeq(active, LAMBDA p : p.end_date <= first_deadline)
        eligible == SelectSeq(active, LAMBDA p : FloatPositive(pacing_credit[p]))
        PaceLess(p, q) ==
            \/ FloatLess(pacing_credit[q], pacing_credit[p])
            \/ /\ ~FloatLess(pacing_credit[p], pacing_credit[q])
               /\ TupleLess(pace_key(p), pace_key(q))
    IN  IF active = <<>> THEN [project |-> None, rule |-> "none"]
        ELSE IF must_do # <<>>
        THEN [project |-> Some(SortedFirst(must_do, SlackLess)), rule |-> "must_do"]
        ELSE IF eligible # <<>>
        THEN [project |-> Some(SortedFirst(eligible, PaceLess)), rule |-> "pacing"]
        ELSE IF forced_set # <<>>
        THEN [project |-> Some(SortedFirst(forced_set, SlackLess)), rule |-> "forced"]
        ELSE [project |-> None, rule |-> "none"]

\* a selection whose forced set is every active project once some deadline
\* is tripped: with it in the place of paced_choice, C27 fails
paced_choice_all_forced(current_date, remaining_work, pacing_credit, keys) ==
    LET active == SelectSeq(keys, LAMBDA p : IsActive(p, current_date, remaining_work))
        must_do == SelectSeq(active, LAMBDA p :
            LET workdays_left == count_weekdays_inclusive(current_date, p.end_date)
            IN  workdays_left > 0 /\ remaining_work[p] >= workdays_left)
        SlackLess(p, q) == TupleLess(slack_key(p, current_date, remaining_work),
                                     slack_key(q, current_date, remaining_work))
        required(deadline) ==
            SumOver({p \in Range(active) : p.end_date <= deadline}, remaining_work)
        tripped == {deadline \in {p.end_date : p \in Range(active)} :
                       /\ count_weekdays_inclusive(current_date, deadline) > 0
                       /\ required(deadline)
                            >= count_weekdays_inclusive(current_date, deadline)}
        first_deadline == CHOOSE d \in tripped : \A e \in tripped : d <= e
        forced_set == IF tripped = {} THEN <<>>
                      ELSE active
        eligible == SelectSeq(active, LAMBDA p : FloatPositive(pacing_credit[p]))
        PaceLess(p, q) ==
            \/ FloatLess(pacing_credit[q], pacing_credit[p])
            \/ /\ ~FloatLess(pacing_credit[p], pacing_credit[q])
               /\ TupleLess(pace_key(p), pace_key(q))
    IN  IF active = <<>> THEN [project |-> None, rule |-> "none"]
        ELSE IF must_do # <<>>
        THEN [project |-> Some(SortedFirst(must_do, SlackLess)), rule |-> "must_do"]
        ELSE IF forced_set # <<>>
        THEN [project |-> Some(SortedFirst(forced_set, SlackLess)), rule |-> "forced"]
        ELSE IF eligible = <<>> THEN [project |-> None, rule |-> "none"]
        ELSE [project |-> Some(SortedFirst(eligible, PaceLess)), rule |-> "pacing"]

\* a selection whose pacing rule takes any credit above zero: with it in the
\* place of paced_choice, C28 fails
paced_choice_any_credit(current_date, remaining_work, pacing_credit, keys) ==
    LET active == SelectSeq(keys, LAMBDA p : IsActive(p, current_date, remaining_work))
        must_do == SelectSeq(active, LAMBDA p :
            LET workdays_left == count_weekdays_inclusive(current_date, p.end_date)
            IN  workdays_left > 0 /\ remaining_work[p] >= workdays_left)
        SlackLess(p, q) == TupleLess(slack_key(p, current_date, remaining_work),
                                     slack_key(q, current_date, remaining_work))
        required(deadline) ==
            SumOver({p \in Range(active) : p.end_date <= deadline}, remaining_work)
        tripped == {deadline \in {p.end_date : p \in Range(active)} :
                       /\ count_weekdays_inclusive(current_date, deadline) > 0
                       /\ required(deadline)
                            >= count_weekdays_inclusive(current_date, deadline)}
        first_deadline == CHOOSE d \in tripped : \A e \in tripped : d <= e
        forced_set == IF tripped = {} THEN <<>>
                      ELSE SelectSeq(active, LAMBDA p : p.end_date <= first_deadline)
        eligible == SelectSeq(active, LAMBDA p : FloatLess(Zero, pacing_credit[p]))
        PaceLess(p, q) ==
            \/ FloatLess(pacing_credit[q], pacing_credit[p])
            \/ /\ ~FloatLess(pacing_credit[p], pacing_credit[q])
               /\ TupleLess(pace_key(p), pace_key(q))
    IN  IF active = <<>> THEN [project |-> None, rule |-> "none"]
        ELSE IF must_do # <<>>
        THEN [project |-> Some(SortedFirst(must_do, SlackLess)), rule |-> "must_do"]
        ELSE IF forced_set # <<>>
        THEN [project |-> Some(SortedFirst(forced_set, SlackLess)), rule |-> "forced"]
        ELSE IF eligible = <<>> THEN [project |-> None, rule |-> "none"]
        ELSE [project |-> Some(SortedFirst(eligible, PaceLess)), rule |-> "pacing"]

\* a selection that gives a day without credit to the active project with
\* the most credit: with it in the place of paced_choice, C29 fails
paced_choice_never_idle(current_date, remaining_work, pacing_credit, keys) ==
    LET active == SelectSeq(keys, LAMBDA p : IsActive(p, current_date, remaining_work))
        must_do == SelectSeq(active, LAMBDA p :
            LET workdays_left == count_weekdays_inclusive(current_date, p.end_date)
            IN  workdays_left > 0 /\ remaining_work[p] >= workdays_left)
        SlackLess(p, q) == TupleLess(slack_key(p, current_date, remaining_work),
                                     slack_key(q, current_date, remaining_work))
        required(deadline) ==
            SumOver({p \in Range(active) : p.end_date <= deadline}, remaining_work)
        tripped == {deadline \in {p.end_date : p \in Range(active)} :
                       /\ count_weekdays_inclusive(current_date, deadline) > 0
                       /\ required(deadline)
                            >= count_weekdays_inclusive(current_date, deadline)}
        first_deadline == CHOOSE d \in tripped : \A e \in tripped : d <= e
        forced_set == IF tripped = {} THEN <<>>
                      ELSE SelectSeq(active, LAMBDA p : p.end_date <= first_deadline)
        eligible == SelectSeq(active, LAMBDA p : FloatPositive(pacing_credit[p]))
        PaceLess(p, q) ==
            \/ FloatLess(pacing_credit[q], pacing_credit[p])
            \/ /\ ~FloatLess(pacing_credit[p], pacing_credit[q])
               /\ TupleLess(pace_key(p), pace_key(q))
    IN  IF active = <<>> THEN [project |-> None, rule |-> "none"]
        ELSE IF must_do # <<>>
        THEN [project |-> Some(SortedFirst(must_do, SlackLess)), rule |-> "must_do"]
        ELSE IF forced_set # <<>>
        THEN [project |-> Some(SortedFirst(forced_set, SlackLess)), rule |-> "forced"]
        ELSE IF eligible = <<>>
        THEN [project |-> Some(SortedFirst(active, PaceLess)), rule |-> "pacing"]
        ELSE [project |-> Some(SortedFirst(eligible, PaceLess)), rule |-> "pacing"]

\* Scheduler._get_paced_project, with the rule that selected the project;
\* keys is the dict's key order
paced_choice(current_date, remaining_work, pacing_credit, keys) ==
    LET active == SelectSeq(keys, LAMBDA p : IsActive(p, current_date, remaining_work))
        must_do == SelectSeq(active, LAMBDA p :
            LET workdays_left == count_weekdays_inclusive(current_date, p.end_date)
            IN  workdays_left > 0 /\ remaining_work[p] >= workdays_left)
        SlackLess(p, q) == TupleLess(slack_key(p, current_date, remaining_work),
                                     slack_key(q, current_date, remaining_work))
        required(deadline) ==
            SumOver({p \in Range(active) : p.end_date <= deadline}, remaining_work)
        tripped == {deadline \in {p.end_date : p \in Range(active)} :
                       /\ count_weekdays_inclusive(current_date, deadline) > 0
                       /\ required(deadline)
                            >= count_weekdays_inclusive(current_date, deadline)}
        first_deadline == CHOOSE d \in tripped : \A e \in tripped : d <= e
        forced_set == IF tripped = {} THEN <<>>
                      ELSE SelectSeq(active, LAMBDA p : p.end_date <= first_deadline)
        eligible == SelectSeq(active, LAMBDA p : FloatPositive(pacing_credit[p]))
        PaceLess(p, q) ==
            \/ FloatLess(pacing_credit[q], pacing_credit[p])
            \/ /\ ~FloatLess(pacing_credit[p], pacing_credit[q])
               /\ TupleLess(pace_key(p), pace_key(q))
    IN  IF active = <<>> THEN [project |-> None, rule |-> "none"]
        ELSE IF must_do # <<>>
        THEN [project |-> Some(SortedFirst(must_do, SlackLess)), rule |-> "must_do"]
        ELSE IF forced_set # <<>>
        THEN [project |-> Some(SortedFirst(forced_set, SlackLess)), rule |-> "forced"]
        ELSE IF eligible = <<>> THEN [project |-> None, rule |-> "none"]
        ELSE [project |-> Some(SortedFirst(eligible, PaceLess)), rule |-> "pacing"]

get_paced_project(current_date, remaining_work, pacing_credit, keys) ==
    paced_choice(current_date, remaining_work, pacing_credit, keys).project

\* a paced day that appends a slot only when it has a project for it: with it
\* in the place of paced_day, C20 fails
paced_day_sparse(st, ps, current_date, rate) ==
    LET credit == accrue(ps, current_date, st.remaining_work, st.pacing_credit, rate)
        choice == paced_choice(current_date, st.remaining_work, credit, DictKeys(ps))
        project == choice.project
    IN  IF project = None
        THEN [remaining_work |-> st.remaining_work,
              pacing_credit |-> credit,
              slots |-> st.slots,
              days |-> st.days]
        ELSE [remaining_work |-> decrement(st.remaining_work, Val(project)),
              pacing_credit |-> spend(credit, Val(project)),
              slots |-> Append(st.slots, ScheduledSlot(current_date, project)),
              days |-> st.days]

\* one weekday of the loop of _create_schedule_paced, scheduler.py:313-336;
\* days records, per weekday, the credit carried into the day, the state the
\* selection saw after the accrual and what it chose
paced_day(st, ps, current_date, rate) ==
    LET credit == accrue(ps, current_date, st.remaining_work, st.pacing_credit, rate)
        choice == paced_choice(current_date, st.remaining_work, credit, DictKeys(ps))
        project == choice.project
    IN  [remaining_work |->
            IF project # None
            THEN decrement(st.remaining_work, Val(project))
            ELSE st.remaining_work,
         pacing_credit |->
            IF project # None
            THEN spend(credit, Val(project))
            ELSE credit,
         slots |-> Append(st.slots, ScheduledSlot(current_date, project)),
         days |-> Append(st.days,
                    [date |-> current_date, remaining_work |-> st.remaining_work,
                     carried |-> st.pacing_credit, pacing_credit |-> credit,
                     project |-> project, rule |-> choice.rule])]

\* for day_offset in range(num_days), scheduler.py:306-336
RECURSIVE paced_loop(_, _, _, _, _)
paced_loop(st, ps, rate, day_offset, num_days) ==
    IF day_offset >= num_days THEN st
    ELSE LET current_date == start_date + day_offset
             next == IF Weekday(current_date) >= 5 THEN st
                     ELSE paced_day(st, ps, current_date, rate)
         IN  After(next, paced_loop(next, ps, rate, day_offset + 1, num_days))

----------------------------------------------------------------------------
(* planner/scheduler.py: the frontload allocator and the diagnostics *)

\* key=lambda p: (-p.priority, p.end_date, -p.slots_remaining), scheduler.py:492
frontload_key(p) == <<-p.priority, p.end_date, -slots_remaining(p)>>

\* sorted(self.projects, key=...): a stable sort
RECURSIVE sorted_projects(_)
sorted_projects(ps) ==
    IF ps = <<>> THEN <<>>
    ELSE LET n == Len(ps)
             x == ps[n]
             s == sorted_projects(SubSeq(ps, 1, n - 1))
         IN  SelectSeq(s, LAMBDA y : ~TupleLess(frontload_key(x), frontload_key(y)))
             \o <<x>>
             \o SelectSeq(s, LAMBDA y : TupleLess(frontload_key(x), frontload_key(y)))

\* a choice of the started project with the most work left, the sort order
\* deciding between equals: with it in the place of frontload_choice, C15 fails
frontload_choice_by_remaining(current_date, remaining_work, sorted) ==
    LET ok == SelectSeq(sorted, LAMBDA candidate :
                /\ remaining_work[candidate] > 0
                /\ ~(candidate.start_date # None
                     /\ current_date < Val(candidate.start_date)))
        most == SelectSeq(ok, LAMBDA candidate :
                \A i \in DOMAIN ok : remaining_work[ok[i]] <= remaining_work[candidate])
    IN  IF ok = <<>> THEN None ELSE Some(Head(most))

\* a choice among the started projects whose end_date has not passed: with it
\* in the place of frontload_choice, C16 fails
frontload_choice_by_deadline(current_date, remaining_work, sorted) ==
    LET ok == SelectSeq(sorted, LAMBDA candidate :
                /\ remaining_work[candidate] > 0
                /\ current_date <= candidate.end_date
                /\ ~(candidate.start_date # None
                     /\ current_date < Val(candidate.start_date)))
    IN  IF ok = <<>> THEN None ELSE Some(Head(ok))

\* the candidate loop, scheduler.py:514-524
frontload_choice(current_date, remaining_work, sorted) ==
    LET ok == SelectSeq(sorted, LAMBDA candidate :
                /\ remaining_work[candidate] > 0
                /\ ~(candidate.start_date # None
                     /\ current_date < Val(candidate.start_date)))
    IN  IF ok = <<>> THEN None ELSE Some(Head(ok))

\* a day that appends a slot only when it has a project for it: with it in
\* the place of frontload_day, C2 fails
frontload_day_sparse(st, current_date, sorted) ==
    LET project == frontload_choice(current_date, st.remaining_work, sorted)
    IN  IF project = None THEN st
        ELSE [remaining_work |-> decrement(st.remaining_work, Val(project)),
              pacing_credit |-> st.pacing_credit,
              slots |-> Append(st.slots, ScheduledSlot(current_date, project)),
              days |-> st.days]

\* one weekday of the loop of _create_schedule_frontload, scheduler.py:508-530
frontload_day(st, current_date, sorted) ==
    LET project == frontload_choice(current_date, st.remaining_work, sorted)
    IN  [remaining_work |->
            IF project # None
            THEN decrement(st.remaining_work, Val(project))
            ELSE st.remaining_work,
         pacing_credit |-> st.pacing_credit,
         slots |-> Append(st.slots, ScheduledSlot(current_date, project)),
         days |-> Append(st.days,
                    [date |-> current_date, remaining_work |-> st.remaining_work,
                     carried |-> st.pacing_credit, pacing_credit |-> st.pacing_credit,
                     project |-> project, rule |-> "frontload"])]

\* for day_offset in range(num_days), scheduler.py:501-530
RECURSIVE frontload_loop(_, _, _, _)
frontload_loop(st, sorted, day_offset, num_days) ==
    IF day_offset >= num_days THEN st
    ELSE LET current_date == start_date + day_offset
             next == IF Weekday(current_date) >= 5 THEN st
                     ELSE frontload_day(st, current_date, sorted)
         IN  After(next, frontload_loop(next, sorted, day_offset + 1, num_days))

\* a warning condition that also wants end_date on or after the start of the
\* Schedule: with it in the place of missed_budget, C10 fails
missed_budget_in_range(project, schedule, remaining_work) ==
    /\ ~(project.end_date > schedule.end_date)
    /\ ~(project.end_date < schedule.start_date)
    /\ ~(remaining_work[project] <= 0)

\* the condition under which a project is warned about, scheduler.py:355-359
missed_budget(project, schedule, remaining_work) ==
    /\ ~(project.end_date > schedule.end_date)
    /\ ~(remaining_work[project] <= 0)

\* Scheduler._warn_if_projects_missed_budget_by_deadline: the warnings emitted,
\* one per element of self.projects that qualifies, with the values of the message
warn_if_projects_missed_budget_by_deadline(ps, schedule, remaining_work, method) ==
    LET warned == SelectSeq(ps, LAMBDA p : missed_budget(p, schedule, remaining_work))
    IN  [i \in DOMAIN warned |->
            [method |-> method,
             name |-> warned[i].name,
             end_date |-> warned[i].end_date,
             remaining |-> remaining_work[warned[i]],
             scheduled |-> slots_remaining(warned[i]) - remaining_work[warned[i]],
             last_scheduled |-> MaxDate(get_project_slots(schedule, warned[i]))]]

\* the state of a run before its first day, scheduler.py:276-301 and :482-496
run_start(ps) ==
    LET remaining_work == initial_work(ps)
    IN  [remaining_work |-> remaining_work,
         pacing_credit |-> Stored([p \in Range(ps) |-> Zero]),
         slots |-> <<>>,
         days |-> <<>>]

\* what a run leaves behind: the Schedule returned, the arguments and the
\* project set of the run, the final remaining_work and pacing_credit, the
\* warnings and the per-day record
finish_run(st, ps, num_weeks, method) ==
    LET schedule == [slots |-> st.slots, start_date |-> start_date,
                     end_date |-> schedule_end(num_weeks)]
    IN  [schedule |-> schedule,
         num_weeks |-> num_weeks,
         method |-> method,
         projects |-> ps,
         remaining_work |-> st.remaining_work,
         pacing_credit |-> st.pacing_credit,
         warnings |-> warn_if_projects_missed_budget_by_deadline(
                          ps, schedule, st.remaining_work, method),
         days |-> st.days]

\* Scheduler._create_schedule_paced
create_schedule_paced(num_weeks) ==
    LET all_projects == generate_renewal_projects(num_weeks)
        st0 == run_start(all_projects)
        rate == pacing_rate(all_projects, st0.remaining_work)
    IN  finish_run(paced_loop(st0, all_projects, rate, 0, num_weeks * 7),
                   all_projects, num_weeks, "paced")

\* Scheduler._create_schedule_frontload
create_schedule_frontload(num_weeks) ==
    LET all_projects == generate_renewal_projects(num_weeks)
        st0 == run_start(all_projects)
    IN  finish_run(frontload_loop(st0, sorted_projects(all_projects), 0, num_weeks * 7),
                   all_projects, num_weeks, "frontload")

----------------------------------------------------------------------------
(* planner/scheduler.py: statistics *)

\* a test that wants more slots than the budget: with it in the place of
\* fully_scheduled, C19 fails
fully_scheduled_strict(stat) == stat.total_slots_assigned > slots_remaining(stat.project)

\* ProjectStats.fully_scheduled
fully_scheduled(stat) == stat.total_slots_assigned >= slots_remaining(stat.project)

\* statistics that count the slots a project holds up to its end_date: with
\* them in the place of statistics, C17 fails
statistics_by_deadline(schedule) ==
    LET num_days == schedule.end_date - schedule.start_date
    IN  [i \in DOMAIN projects |->
            LET project_slots == SelectSeq(get_project_slots(schedule, projects[i]),
                                           LAMBDA s : s.date <= projects[i].end_date)
                total_slots == Len(project_slots)
                per_week == IF num_days > 0 THEN [num |-> total_slots * 7, den |-> num_days]
                            ELSE [num |-> 0, den |-> 1]
            IN  [project |-> projects[i],
                 total_slots_assigned |-> total_slots,
                 slots_per_week |-> per_week,
                 days_per_week |-> per_week,
                 last_scheduled_date |-> MaxDate(project_slots)]]

\* Scheduler.get_statistics: one ProjectStats per element of self.projects;
\* slots_per_week and days_per_week are the fraction total_slots / num_weeks
statistics(schedule) ==
    LET num_days == schedule.end_date - schedule.start_date
    IN  [i \in DOMAIN projects |->
            LET project_slots == get_project_slots(schedule, projects[i])
                total_slots == Len(project_slots)
                per_week == IF num_days > 0 THEN [num |-> total_slots * 7, den |-> num_days]
                            ELSE [num |-> 0, den |-> 1]
            IN  [project |-> projects[i],
                 total_slots_assigned |-> total_slots,
                 slots_per_week |-> per_week,
                 days_per_week |-> per_week,
                 last_scheduled_date |-> MaxDate(project_slots)]]

----------------------------------------------------------------------------
(* The operations of a Scheduler *)

\* the str values a caller passes as method; "invalid" stands for any other str
Methods == {"paced", "frontload", "invalid"}

\* the run of create_schedule(num_weeks, method), for the two known methods
run_of(num_weeks, method) ==
    IF method = "paced" THEN create_schedule_paced(num_weeks)
    ELSE create_schedule_frontload(num_weeks)

\* a create_schedule that takes any unknown method for the default, "paced":
\* with it in the place of create_schedule, C4 fails
create_schedule_lenient(num_weeks, method) ==
    LET run == run_of(num_weeks, IF method = "frontload" THEN "frontload" ELSE "paced")
    IN  /\ projects' = run.projects
        /\ latest' = Some(run)
        /\ kept' = latest
        /\ interleaved' = FALSE
        /\ result' = [op |-> "create_schedule", args |-> <<num_weeks, method>>,
                      raised |-> None, stats |-> <<>>]
        /\ UNCHANGED <<base_projects, start_date, projects_file, task>>

\* a scheduler that appends the renewals to the list it was given, which is
\* the caller's: with it in the place of create_schedule, C23 fails
create_schedule_appending(num_weeks, method) ==
    IF method = "paced" \/ method = "frontload"
    THEN LET run == run_of(num_weeks, method)
         IN  /\ projects' = run.projects
             /\ base_projects' = run.projects
             /\ latest' = Some(run)
             /\ \/ /\ kept' = kept
                   /\ interleaved' =
                        /\ kept # None
                        /\ \/ interleaved
                           \/ Val(latest).num_weeks # Val(kept).num_weeks
                           \/ Val(latest).method # Val(kept).method
                \/ /\ kept' = latest
                   /\ interleaved' = FALSE
             /\ result' = [op |-> "create_schedule", args |-> <<num_weeks, method>>,
                           raised |-> None, stats |-> <<>>]
             /\ UNCHANGED <<start_date, projects_file, task>>
    ELSE /\ result' = [op |-> "create_schedule", args |-> <<num_weeks, method>>,
                       raised |-> Some([type |-> "ValueError", value |-> method]),
                       stats |-> <<>>]
         /\ UNCHANGED <<base_projects, start_date, projects, latest, kept, interleaved,
                    projects_file, task>>

\* a scheduler that fills one Schedule object over and over, so that a
\* Schedule returned earlier shows the slots of the latest call: with it in
\* the place of create_schedule, C22 fails
create_schedule_reusing(num_weeks, method) ==
    IF method = "paced" \/ method = "frontload"
    THEN LET run == run_of(num_weeks, method)
             shared(held) ==
                IF held = None THEN None
                ELSE Some([Val(held) EXCEPT !.schedule = run.schedule])
         IN  /\ projects' = run.projects
             /\ latest' = Some(run)
             /\ \/ /\ kept' = shared(kept)
                   /\ interleaved' =
                        /\ kept # None
                        /\ \/ interleaved
                           \/ Val(latest).num_weeks # Val(kept).num_weeks
                           \/ Val(latest).method # Val(kept).method
                \/ /\ kept' = shared(latest)
                   /\ interleaved' = FALSE
             /\ result' = [op |-> "create_schedule", args |-> <<num_weeks, method>>,
                           raised |-> None, stats |-> <<>>]
             /\ UNCHANGED <<base_projects, start_date, projects_file, task>>
    ELSE /\ result' = [op |-> "create_schedule", args |-> <<num_weeks, method>>,
                       raised |-> Some([type |-> "ValueError", value |-> method]),
                       stats |-> <<>>]
         /\ UNCHANGED <<base_projects, start_date, projects, latest, kept, interleaved,
                    projects_file, task>>

\* Scheduler.create_schedule(num_weeks, method); the caller holds the Schedule
\* returned and may go on holding one returned earlier
create_schedule(num_weeks, method) ==
    IF method = "paced" \/ method = "frontload"
    THEN LET run == run_of(num_weeks, method)
         IN  /\ projects' = run.projects
             /\ latest' = Some(run)
             /\ \/ /\ kept' = kept
                   /\ interleaved' =
                        /\ kept # None
                        /\ \/ interleaved
                           \/ Val(latest).num_weeks # Val(kept).num_weeks
                           \/ Val(latest).method # Val(kept).method
                \/ /\ kept' = latest
                   /\ interleaved' = FALSE
             /\ result' = [op |-> "create_schedule", args |-> <<num_weeks, method>>,
                           raised |-> None, stats |-> <<>>]
             /\ UNCHANGED <<base_projects, start_date, projects_file, task>>
    ELSE /\ result' = [op |-> "create_schedule", args |-> <<num_weeks, method>>,
                       raised |-> Some([type |-> "ValueError", value |-> method]),
                       stats |-> <<>>]
         /\ UNCHANGED <<base_projects, start_date, projects, latest, kept, interleaved,
                    projects_file, task>>

\* Scheduler.get_statistics(schedule), for a Schedule the caller holds
get_statistics(held) ==
    /\ held # None
    /\ result' = [op |-> "get_statistics", args |-> <<Val(held).num_weeks, Val(held).method>>,
                  raised |-> None, stats |-> statistics(Val(held).schedule)]
    /\ UNCHANGED <<base_projects, start_date, projects, latest, kept, interleaved,
                    projects_file, task>>

----------------------------------------------------------------------------
(* The schedulers the model constructs *)

\* Scheduler.start_date: a Monday, a Thursday and a Saturday
StartDates == {0, 3, 5}

\* The data model's invariant on a Project: remaining_days >= 0, and
\* start_date <= end_date when a start_date is given
WellFormed(p) ==
    /\ p.remaining_days >= 0
    /\ p.start_date # None => Val(p.start_date) <= p.end_date

\* projects that differ in deadline, budget and start: 0, 1.5, 5, 6 and 11 days
\* of work, due on the first Friday, the second Monday or the second Friday
TimingProjects(name) ==
    {p \in {Prioritized(Project(name, e, r, s, None), 0) :
                e \in {4, 7, 11}, r \in {0, 3, 10, 12, 22}, s \in {None, Some(7)}} :
        WellFormed(p)}

\* projects that differ in priority
PriorityProjects(name) ==
    {Prioritized(Project(name, e, r, None, None), pr) :
        e \in {4, 11}, r \in {3, 10}, pr \in 0..MaxPriority}

\* projects with a renewal budget of 0 or 2 days
RenewalProjects(name) ==
    {Prioritized(Project(name, e, r, None, Some(rn)), 0) :
        e \in {4, 11}, r \in {3, 10}, rn \in {0, 4}}

\* projects that renew and have a priority of their own
InheritingProjects(name) ==
    {Prioritized(Project(name, e, 10, None, Some(rn)), pr) :
        e \in {4, 11}, rn \in {0, 4}, pr \in 0..MaxPriority}

\* projects whose pacing rate, 0.4 or 0.8 from a Monday, leaves a credit
\* just above zero after some of its sums: 4 or 8 days of work, due on the
\* second Friday
SteadyProjects(name) ==
    {Prioritized(Project(name, 11, r, None, None), 0) : r \in {8, 16}}

ProjectLists ==
    {<<>>}
    \cup {<<a>> : a \in TimingProjects("A")}
    \cup {<<a, b>> : a \in TimingProjects("A"), b \in TimingProjects("B")}
    \cup {<<a, b>> : a \in PriorityProjects("A"), b \in PriorityProjects("B")}
    \cup {<<b, a>> : a \in PriorityProjects("A"), b \in PriorityProjects("B")}
    \cup {<<a>> : a \in RenewalProjects("A")}
    \cup {<<a, b>> : a \in RenewalProjects("A"), b \in PriorityProjects("B")}
    \cup {<<a>> : a \in InheritingProjects("A")}
    \cup {<<a, b>> : a \in InheritingProjects("A"), b \in InheritingProjects("B")}
    \cup {<<a>> : a \in SteadyProjects("A")}

\* Scheduler.__init__(projects, start_date)
InitWith(lists) ==
    /\ base_projects \in lists
    /\ start_date \in StartDates
    /\ projects = base_projects
    /\ latest = None
    /\ kept = None
    /\ interleaved = FALSE
    /\ result = [op |-> "Scheduler", args |-> <<>>, raised |-> None, stats |-> <<>>]
    /\ projects_file = None
    /\ task = None

Calls == \E num_weeks \in 1..MaxWeeks, method \in Methods : create_schedule(num_weeks, method)

Statistics == \E held \in {latest, kept} : get_statistics(held)

\* A scheduler on which create_schedule is called once, with any arguments,
\* and get_statistics after it
InitRun == InitWith(ProjectLists)

NextRun ==
    \/ latest = None /\ Calls
    \/ Statistics

SpecRun == InitRun /\ [][NextRun]_vars

\* A scheduler on which the two operations are called any number of times, in
\* any order and with any arguments; its projects have renewals that depend on
\* num_weeks
SessionLists ==
    {<<>>}
    \cup {<<a>> : a \in RenewalProjects("A")}
    \cup {<<a, Prioritized(Project("B", 11, 10, None, None), 0)>> :
            a \in {r \in RenewalProjects("A") : Val(r.renewal_days) > 0}}

Init == InitWith(SessionLists)

Next == Calls \/ Statistics

Spec == Init /\ [][Next]_vars

\* A scheduler given a project that breaks the data model's invariant: a
\* negative budget (-1 or -1.5 days), or a start_date after the end_date
MalformedProjects(name) ==
    {p \in {Prioritized(Project(name, e, r, s, None), 0) :
                e \in {4, 11}, r \in {-3, -2, 3, 10}, s \in {None, Some(7)}} :
        ~WellFormed(p)}

MalformedLists ==
    {<<a>> : a \in MalformedProjects("A")}
    \cup {<<a, b>> : a \in MalformedProjects("A"), b \in PriorityProjects("B")}
    \cup {<<b, a>> : a \in MalformedProjects("A"), b \in PriorityProjects("B")}

InitMalformed == InitWith(MalformedLists)

SpecMalformed == InitMalformed /\ [][NextRun]_vars

\* A scheduler of projects with little work and a deadline weeks away, on
\* which create_schedule is called once with a horizon of up to MaxWeeksSparse
\* weeks: 2 or 3 days of work, due on the Saturday or the Friday of week 4 or 5
SparseProjects(name) ==
    {Prioritized(Project(name, e, r, None, None), 0) : e \in {25, 31}, r \in {4, 6}}

SparseLists ==
    {<<a>> : a \in SparseProjects("A")}
    \cup {<<a, b>> : a \in SparseProjects("A"), b \in SparseProjects("B")}

InitSparse == InitWith(SparseLists)

SparseCalls ==
    \E num_weeks \in 1..MaxWeeksSparse, method \in Methods : create_schedule(num_weeks, method)

NextSparse ==
    \/ latest = None /\ SparseCalls
    \/ Statistics

SpecSparse == InitSparse /\ [][NextSparse]_vars

\* A scheduler of three projects that compete for the same days: 2 or 5 days of
\* work each, due on the first Friday, the second Monday or the second Friday;
\* the third project has no priority or the highest, and may have 4 days of
\* work
CrowdedProjects(name, budgets, priorities) ==
    {Prioritized(Project(name, e, r, None, None), pr) :
        e \in {4, 7, 11}, r \in budgets, pr \in priorities}

CrowdedLists ==
    {<<a, b, c>> : a \in CrowdedProjects("A", {4, 10}, {0}),
                   b \in CrowdedProjects("B", {4, 10}, {0}),
                   c \in CrowdedProjects("C", {4, 8, 10}, {0, MaxPriority})}

InitCrowded == InitWith(CrowdedLists)

SpecCrowded == InitCrowded /\ [][NextRun]_vars

\* Scheduler._count_weekdays_inclusive is a staticmethod: a call on any pair
\* of dates, with start on each weekday of two weeks and end from before start
\* to MaxSpan days after the latest start; result holds the pair and the count
CountDates == 0..13

count_weekdays_call(start, end) ==
    /\ result' = [op |-> "_count_weekdays_inclusive", args |-> <<start, end>>,
                  raised |-> None, stats |-> <<>>,
                  value |-> count_weekdays_inclusive(start, end)]
    /\ UNCHANGED <<base_projects, start_date, projects, latest, kept, interleaved,
                    projects_file, task>>

InitCount == InitWith({<<>>})

NextCount == \E start \in CountDates, end \in 0..(13 + MaxSpan) : count_weekdays_call(start, end)

SpecCount == InitCount /\ [][NextCount]_vars

----------------------------------------------------------------------------
(* importer.update_projects_json and projects.json *)

\* A project dictionary of projects.json or of an import: its keys are fields
\* of a record.  remaining_days is counted in half-days, as in Project.
ProjectDict(name, end_date, remaining_days) ==
    [name |-> name, end_date |-> end_date, remaining_days |-> remaining_days]

\* {p["name"]: p for p in listed}, in insertion order: a name listed again
\* keeps its place and takes the later value
RECURSIVE by_name(_)
by_name(listed) ==
    IF listed = <<>> THEN <<>>
    ELSE LET earlier == by_name(SubSeq(listed, 1, Len(listed) - 1))
             p == listed[Len(listed)]
         IN  IF \E i \in DOMAIN earlier : earlier[i].name = p.name
             THEN Stored([i \in DOMAIN earlier |->
                            IF earlier[i].name = p.name THEN p ELSE earlier[i]])
             ELSE Append(earlier, p)

\* a loop that replaces the stored dictionary of a name by the imported one:
\* with it in the place of merge_projects, C38 fails
RECURSIVE merge_projects_overwriting(_, _, _)
merge_projects_overwriting(existing_projects, stats, new_projects) ==
    IF new_projects = <<>> THEN [projects |-> existing_projects, stats |-> stats]
    ELSE LET new_proj == Head(new_projects)
             at == {i \in DOMAIN existing_projects : existing_projects[i].name = new_proj.name}
         IN  IF at # {}
             THEN LET i == CHOOSE i \in at : TRUE
                  IN  IF existing_projects[i].remaining_days # new_proj.remaining_days
                      THEN merge_projects_overwriting(
                               Stored([existing_projects EXCEPT ![i] = new_proj]),
                               [stats EXCEPT !.updated = @ + 1], Tail(new_projects))
                      ELSE merge_projects_overwriting(
                               existing_projects,
                               [stats EXCEPT !.unchanged = @ + 1], Tail(new_projects))
             ELSE merge_projects_overwriting(
                      Append(existing_projects, new_proj),
                      [stats EXCEPT !.added = @ + 1], Tail(new_projects))

\* the loop over new_projects: existing_projects is the dict, in insertion
\* order, and stats the counts so far
RECURSIVE merge_projects(_, _, _)
merge_projects(existing_projects, stats, new_projects) ==
    IF new_projects = <<>> THEN [projects |-> existing_projects, stats |-> stats]
    ELSE LET new_proj == Head(new_projects)
             at == {i \in DOMAIN existing_projects : existing_projects[i].name = new_proj.name}
         IN  IF at # {}
             THEN LET i == CHOOSE i \in at : TRUE
                      old_remaining == existing_projects[i].remaining_days
                      new_remaining == new_proj.remaining_days
                  IN  IF old_remaining # new_remaining
                      THEN merge_projects(
                               Stored([existing_projects EXCEPT ![i].remaining_days = new_remaining]),
                               [stats EXCEPT !.updated = @ + 1], Tail(new_projects))
                      ELSE merge_projects(
                               existing_projects,
                               [stats EXCEPT !.unchanged = @ + 1], Tail(new_projects))
             ELSE merge_projects(
                      Append(existing_projects, new_proj),
                      [stats EXCEPT !.added = @ + 1], Tail(new_projects))

\* update_projects_json(new_projects, projects_path): an absent file reads as
\* {"projects": []}; the merged list is written and the counts are returned
update_projects_json(new_projects) ==
    LET existing_data == IF projects_file = None THEN <<>> ELSE Val(projects_file)
        existing_projects == by_name(existing_data)
        merged == merge_projects(existing_projects,
                                 [added |-> 0, updated |-> 0, unchanged |-> 0],
                                 new_projects)
    IN  /\ projects_file' = Some(merged.projects)
        /\ result' = [op |-> "update_projects_json", args |-> <<new_projects>>,
                      raised |-> None, stats |-> <<>>, value |-> merged.stats]
        /\ UNCHANGED <<base_projects, start_date, projects, latest, kept, interleaved, task>>

\* The names are unique in a file and in an import.  A stored project ends on
\* day 4 and an imported one on day 11, with 2.5 or 5 days remaining, so that
\* an import of a stored name differs from it in end_date
ImportNames == {"A", "B", "C"}

StoredDicts(name) == {ProjectDict(name, 4, r) : r \in {5, 10}}

ImportedDicts(name) == {ProjectDict(name, 11, r) : r \in {5, 10}}

\* the lists of at most n of the dictionaries, no name listed twice
UniquelyNamed(dicts, n) ==
    {listed \in UNION {[1..k -> dicts] : k \in 0..n} :
        \A i, j \in DOMAIN listed : i # j => listed[i].name # listed[j].name}

StoredFiles ==
    {None} \cup {Some(listed) : listed \in UniquelyNamed(UNION {StoredDicts(n) : n \in ImportNames}, 2)}

Imports == UniquelyNamed(UNION {ImportedDicts(n) : n \in ImportNames}, MaxImported)

\* A projects.json, absent or holding up to two projects, into which imports
\* are merged any number of times
InitImport ==
    /\ base_projects = <<>>
    /\ start_date = 0
    /\ projects = base_projects
    /\ latest = None
    /\ kept = None
    /\ interleaved = FALSE
    /\ result = [op |-> "projects.json", args |-> <<>>, raised |-> None, stats |-> <<>>]
    /\ projects_file \in StoredFiles
    /\ task = None

NextImport == \E new_projects \in Imports : update_projects_json(new_projects)

SpecImport == InitImport /\ [][NextImport]_vars

----------------------------------------------------------------------------
(* task.Task *)

\* datetime.now() returns one of the times 0..MaxTime
Times == 0..MaxTime

Titles == {"write", "review"}

Descriptions == {"", "by Friday"}

\* Task.__init__(title, description), run at the time now
Task(title, description, now) ==
    [title |-> title, description |-> description, completed |-> FALSE,
     created_at |-> now, completed_at |-> None]

\* an uncomplete that keeps the completion time: with it in the place of
\* uncomplete, C39 fails
uncomplete_keeping_time ==
    /\ task # None
    /\ task' = Some([Val(task) EXCEPT !.completed = FALSE])
    /\ result' = [op |-> "uncomplete", args |-> <<>>, raised |-> None, stats |-> <<>>]
    /\ UNCHANGED <<base_projects, start_date, projects, latest, kept, interleaved,
                   projects_file>>

\* Task.complete(), run at the time now
complete(now) ==
    /\ task # None
    /\ task' = Some([Val(task) EXCEPT !.completed = TRUE, !.completed_at = Some(now)])
    /\ result' = [op |-> "complete", args |-> <<>>, raised |-> None, stats |-> <<>>]
    /\ UNCHANGED <<base_projects, start_date, projects, latest, kept, interleaved,
                   projects_file>>

\* Task.uncomplete()
uncomplete ==
    /\ task # None
    /\ task' = Some([Val(task) EXCEPT !.completed = FALSE, !.completed_at = None])
    /\ result' = [op |-> "uncomplete", args |-> <<>>, raised |-> None, stats |-> <<>>]
    /\ UNCHANGED <<base_projects, start_date, projects, latest, kept, interleaved,
                   projects_file>>

\* A Task, constructed at any time, on which complete and uncomplete are
\* called any number of times, in any order
InitTask ==
    /\ base_projects = <<>>
    /\ start_date = 0
    /\ projects = base_projects
    /\ latest = None
    /\ kept = None
    /\ interleaved = FALSE
    /\ result = [op |-> "Task", args |-> <<>>, raised |-> None, stats |-> <<>>]
    /\ projects_file = None
    /\ task \in {Some(Task(title, description, now)) :
                    title \in Titles, description \in Descriptions, now \in Times}

NextTask ==
    \/ \E now \in Times : complete(now)
    \/ uncomplete

SpecTask == InitTask /\ [][NextTask]_vars

----------------------------------------------------------------------------
(* Properties of the Schedules returned and of the calls *)

\* the runs whose Schedule the caller holds
Held == {Val(h) : h \in {latest, kept} \ {None}}

\* the Monday-Friday dates from lo through hi, found day by day
WeekdaysIn(lo, hi) == {d \in lo..hi : d % 7 < 5}

\* the positions of the slots of a Schedule that are assigned to project p
SlotsOf(schedule, p) == {i \in DOMAIN schedule.slots : schedule.slots[i].project = Some(p)}

Assigned(schedule, p) == Cardinality(SlotsOf(schedule, p))

\* the date of the last slot assigned to p, if it has one
LastAssigned(schedule, p) ==
    IF SlotsOf(schedule, p) = {} THEN None
    ELSE Some(CHOOSE d \in {schedule.slots[i].date : i \in SlotsOf(schedule, p)} :
                \A i \in SlotsOf(schedule, p) : schedule.slots[i].date <= d)

\* floor(p.remaining_days), for a budget counted in half-days
Budget(p) == p.remaining_days \div 2

\* the first date p may be worked on in a run
WindowStart(p) ==
    IF p.start_date # None /\ Val(p.start_date) > start_date
    THEN Val(p.start_date) ELSE start_date

\* p may be worked on from the first day of the horizon
StartsWithHorizon(p) == p.start_date = None \/ Val(p.start_date) <= start_date

\* C1: every slot of every Schedule returned by create_schedule, with either
\* method and for any projects, start date and num_weeks, is dated Monday to
\* Friday: none is dated on a Saturday or a Sunday.
C1_SlotsOnWeekdays ==
    \A run \in Held : \A i \in DOMAIN run.schedule.slots :
        run.schedule.slots[i].date % 7 \in 0..4

\* a two-week Schedule of a scheduler that starts on a Saturday, with a slot
\* assigned on each side of the weekend inside the horizon
C1_Witness ==
    \E run \in Held :
        /\ start_date = 5 /\ run.num_weeks >= 2
        /\ \E i, j \in DOMAIN run.schedule.slots :
            /\ run.schedule.slots[i].project # None
            /\ run.schedule.slots[j].project # None
            /\ run.schedule.slots[i].date <= 11
            /\ run.schedule.slots[j].date >= 14

\* C2: the slots of a returned Schedule are exactly the Monday-Friday dates d
\* with start_date <= d < start_date + 7 * num_weeks, one slot each, in
\* strictly ascending order, 5 * num_weeks in all, and a slot carries no
\* project or one project of the run.
C2_OneSlotPerWeekday ==
    \A run \in Held :
        LET slots == run.schedule.slots
        IN  /\ {slots[i].date : i \in DOMAIN slots}
                = WeekdaysIn(start_date, start_date + 7 * run.num_weeks - 1)
            /\ \A i, j \in DOMAIN slots : i < j => slots[i].date < slots[j].date
            /\ Len(slots) = 5 * run.num_weeks
            /\ \A i \in DOMAIN slots :
                slots[i].project \in {None} \cup {Some(p) : p \in Range(run.projects)}

\* a frontload Schedule from a Thursday that has assigned slots and, after
\* them, unassigned ones
C2_Witness ==
    \E run \in Held :
        /\ run.method = "frontload" /\ start_date = 3
        /\ \E i, j \in DOMAIN run.schedule.slots :
            /\ i < j
            /\ run.schedule.slots[i].project # None
            /\ run.schedule.slots[j].project = None

\* C3: with either method a project gets at most
\* min(floor(remaining_days), weekdays from max(horizon start, its start)
\* through min(end_date, horizon end)) slots; in particular never more slots
\* than there are weekdays up to its end_date.
C3_SlotsBounded ==
    \A run \in Held : \A p \in Range(run.projects) :
        Assigned(run.schedule, p)
            <= Min(Budget(p),
                   Cardinality(WeekdaysIn(WindowStart(p),
                                          Min(p.end_date, run.schedule.end_date))))

\* C4: create_schedule with a method other than "paced" and "frontload" raises
\* an error that names the value passed, returns no Schedule, and leaves the
\* working project set (and the Schedules returned before) as they were.
C4_UnknownMethodRejected ==
    [][(/\ result' # result
        /\ result'.op = "create_schedule"
        /\ result'.args[2] \notin {"paced", "frontload"})
       => /\ result'.raised = Some([type |-> "ValueError", value |-> result'.args[2]])
          /\ projects' = projects
          /\ latest' = latest
          /\ kept' = kept]_vars

\* an unknown method was rejected on a scheduler whose working set holds a
\* renewal generated by an earlier call
C4_Witness ==
    /\ result.op = "create_schedule"
    /\ result.raised # None
    /\ latest # None
    /\ Len(projects) > Len(base_projects)

\* C5: create_schedule returns no Schedule when a project it was given is
\* malformed (remaining_days < 0, or end_date before the project's start_date);
\* it fails with a validation error before producing a slot.
C5_MalformedRejected ==
    (\E i \in DOMAIN base_projects :
        \/ base_projects[i].remaining_days < 0
        \/ /\ base_projects[i].start_date # None
           /\ base_projects[i].end_date < Val(base_projects[i].start_date))
    => /\ latest = None
       /\ result.op = "create_schedule" => result.raised # None

\* C6: two create_schedule calls on one scheduler with the same num_weeks and
\* method return the same slots, date by date and project by project, also
\* when calls with other arguments returned between the two.
C6_SameArgumentsSameSlots ==
    (/\ latest # None
     /\ kept # None
     /\ Val(latest).num_weeks = Val(kept).num_weeks
     /\ Val(latest).method = Val(kept).method)
    => Val(latest).schedule.slots = Val(kept).schedule.slots

\* two paced runs with the same arguments and a call with other arguments
\* between them, on a scheduler whose project has a renewal, with work assigned
C6_Witness ==
    /\ latest # None
    /\ kept # None
    /\ interleaved
    /\ Val(latest).num_weeks = Val(kept).num_weeks
    /\ Val(latest).method = "paced"
    /\ Val(kept).method = "paced"
    /\ Len(Val(latest).projects) > Len(base_projects)
    /\ \E i \in DOMAIN Val(latest).schedule.slots :
        Val(latest).schedule.slots[i].project # None

\* the case of C7: the paced run of a single project that may start with the
\* horizon, whose budget is the number of weekdays from the scheduling start
\* through its end_date, and whose end_date has a place in the horizon
SingleTightProject(run) ==
    /\ run.method = "paced"
    /\ Len(run.projects) = 1
    /\ StartsWithHorizon(run.projects[1])
    /\ Budget(run.projects[1])
        = Cardinality(WeekdaysIn(start_date, run.projects[1].end_date))
    /\ run.projects[1].end_date < run.schedule.end_date

C8_OverfullHorizonFilled ==
    \A run \in Held :
        (/\ run.method = "paced"
         /\ Len(run.projects) = 1
         /\ Budget(run.projects[1]) > 5 * run.num_weeks)
        => /\ Assigned(run.schedule, run.projects[1]) = 5 * run.num_weeks
           /\ result.op = "get_statistics"
                => \A i \in DOMAIN result.stats : ~fully_scheduled(result.stats[i])

\* C9: under the paced method, when the work fits the horizon (the budgets sum
\* to at most the number of weekdays of the horizon) and every project may
\* start with the horizon, every project gets floor(remaining_days) slots,
\* also when its end_date lies beyond the horizon end.
C9_FittingWorkAssigned ==
    \A run \in Held :
        (/\ run.method = "paced"
         /\ SumOver(Range(run.projects), [p \in Range(run.projects) |-> Budget(p)])
                <= 5 * run.num_weeks
         /\ \A p \in Range(run.projects) : StartsWithHorizon(p))
        => \A p \in Range(run.projects) : Assigned(run.schedule, p) = Budget(p)

\* the projects of a run that are due a deadline-miss diagnostic: end_date not
\* beyond the horizon end, and work left over after the horizon was walked
Overdue(run) ==
    SelectSeq(run.projects, LAMBDA p :
        /\ p.end_date <= run.schedule.end_date
        /\ Budget(p) - Assigned(run.schedule, p) > 0)

RenewalOfBase(p, b) ==
    /\ p.name = b.name \o " (Renewal)"
    /\ p.start_date = <<b.end_date + 1>>
    /\ p.end_date = Val(p.start_date) + 365
    /\ <<p.remaining_days>> = b.renewal_days
    /\ p.renewal_days = <<>>
    /\ p.is_renewal
    /\ p.parent_name = <<b.name>>
    /\ p.priority = b.priority

\* C11: every renewal of a run comes from a base project b and has the name
\* "<b.name> (Renewal)", start_date the day after b.end_date, end_date 365
\* days after that start_date, remaining_days = b.renewal_days, renewal_days
\* unset, is_renewal true, parent_name = b.name and the priority of b
C11_RenewalFields ==
    \A run \in Held : \A i \in DOMAIN run.projects :
        run.projects[i].is_renewal =>
            \E j \in DOMAIN base_projects :
                /\ run.projects[i].parent_name = <<base_projects[j].name>>
                /\ RenewalOfBase(run.projects[i], base_projects[j])

\* a run with the renewals of two base projects of different priorities, one
\* of them above the default, both with slots in the Schedule
C11_Witness ==
    \E run \in Held : \E i, j \in DOMAIN run.projects :
        /\ run.projects[i].is_renewal /\ run.projects[j].is_renewal
        /\ run.projects[i].priority > run.projects[j].priority
        /\ Assigned(run.schedule, run.projects[i]) > 0
        /\ Assigned(run.schedule, run.projects[j]) > 0

\* the positions of the renewals of base project b in the project set of run
RenewalsFor(run, b) ==
    {i \in DOMAIN run.projects :
        run.projects[i].is_renewal /\ run.projects[i].parent_name = <<b.name>>}

\* b.renewal_days is set and positive, and the day after b.end_date is on or
\* before start_date + num_weeks weeks
Qualifies(b, num_weeks) ==
    /\ b.renewal_days # <<>>
    /\ b.renewal_days[1] > 0
    /\ b.end_date + 1 <= start_date + 7 * num_weeks

\* C12: a run has exactly one renewal for each base project whose
\* renewal_days is set and positive and whose end_date + 1 day is on or before
\* start_date + num_weeks weeks, and none for any other base project
C12_RenewalIffQualifies ==
    \A run \in Held : \A j \in DOMAIN base_projects :
        Cardinality(RenewalsFor(run, base_projects[j])) =
            IF Qualifies(base_projects[j], run.num_weeks) THEN 1 ELSE 0

\* a run with a renewal that starts on the last day the test admits, next to
\* a base project whose renewal_days is 0 and which has no renewal
C12_Witness ==
    \E run \in Held : \E i, j \in DOMAIN base_projects :
        /\ base_projects[i].end_date + 1 = start_date + 7 * run.num_weeks
        /\ RenewalsFor(run, base_projects[i]) # {}
        /\ base_projects[j].renewal_days = <<0>>
        /\ RenewalsFor(run, base_projects[j]) = {}

\* C13: after any sequence of create_schedule calls the working set is the
\* base projects followed by the renewals of the most recent call only, one
\* for each base project that qualifies under that call's num_weeks and each
\* the renewal of a base project; before the first call it is the base projects
C13_WorkingSetOfLatestCall ==
    IF latest = None THEN projects = base_projects
    ELSE LET num_weeks == Val(latest).num_weeks
             n == Len(base_projects)
         IN  /\ projects = Val(latest).projects
             /\ Len(projects) >= n
             /\ SubSeq(projects, 1, n) = base_projects
             /\ \A i \in DOMAIN projects : i > n =>
                    \E j \in DOMAIN base_projects :
                        /\ RenewalOfBase(projects[i], base_projects[j])
                        /\ Qualifies(base_projects[j], num_weeks)
             /\ \A j \in DOMAIN base_projects :
                    Cardinality(RenewalsFor([projects |-> projects], base_projects[j])) =
                        IF Qualifies(base_projects[j], num_weeks) THEN 1 ELSE 0

\* a call that had a renewal, followed by a call with fewer weeks that has
\* none: the Schedule of the first is still held, its renewal is gone
C13_Witness ==
    /\ latest # None /\ kept # None
    /\ Len(Val(kept).projects) > Len(Val(latest).projects)
    /\ Val(kept).num_weeks > Val(latest).num_weeks
    /\ Len(projects) = Len(base_projects)

\* the work p has left before the slot at position k of a frontload Schedule
\* is assigned: its budget less the slots it holds at earlier positions
LeftBefore(schedule, p, k) ==
    Budget(p) - Cardinality({i \in SlotsOf(schedule, p) : i < k})

\* the projects the frontload method may assign the slot at position k to
Available(run, k) ==
    {p \in Range(run.projects) :
        /\ LeftBefore(run.schedule, p, k) > 0
        /\ p.start_date # None => Val(p.start_date) <= run.schedule.slots[k].date}

\* the static order of the frontload method as specified: priority
\* descending, end_date ascending, remaining work descending, name ascending
TotalOrderKey(p) == <<-p.priority, p.end_date, -Budget(p), NameRank(p.name)>>

\* C14: under the frontload method every weekday is assigned the project that
\* comes first in the static total order (priority descending, end_date
\* ascending, remaining work descending, name ascending) among the projects
\* with work left that have started, whatever their position in the input
\* list; a weekday without such a project stays unassigned
C14_FrontloadFirstInTotalOrder ==
    \A run \in Held : run.method = "frontload" =>
        \A k \in DOMAIN run.schedule.slots :
            IF Available(run, k) = {} THEN run.schedule.slots[k].project = None
            ELSE \E p \in Available(run, k) :
                    /\ run.schedule.slots[k].project = Some(p)
                    /\ \A q \in Available(run, k) \ {p} :
                        TupleLess(TotalOrderKey(p), TotalOrderKey(q))

\* the slots of p are next to one another in the Schedule
Contiguous(schedule, p) ==
    \A i, j \in SlotsOf(schedule, p) : \A k \in i..j : k \in SlotsOf(schedule, p)

\* every slot of p comes before every slot of q
AllBefore(schedule, p, q) ==
    \A i \in SlotsOf(schedule, p), j \in SlotsOf(schedule, q) : i < j

SortOrderKey(p) == <<-p.priority, p.end_date, -Budget(p)>>

AssignedSlots(schedule) == {k \in DOMAIN schedule.slots : schedule.slots[k].project # None}

\* the sum of floor(remaining_days) over the projects of a run
TotalBudget(run) ==
    SumOver(Range(run.projects), [p \in Range(run.projects) |-> Budget(p)])

\* C16: under the frontload method a weekday is unassigned only if no project
\* with work left has started by that day; when no project has a start_date
\* after the start of the horizon, the number of assigned slots is the lesser
\* of the sum of floor(remaining_days) and the number of weekdays of the
\* horizon, and the assigned days are the first weekdays of the horizon
C16_FrontloadFillsFromStart ==
    \A run \in Held : run.method = "frontload" =>
        /\ \A k \in DOMAIN run.schedule.slots :
            run.schedule.slots[k].project = None => Available(run, k) = {}
        /\ (\A p \in Range(run.projects) : StartsWithHorizon(p))
            => /\ Cardinality(AssignedSlots(run.schedule))
                    = Min(TotalBudget(run), Cardinality(WeekdaysIn(start_date, run.schedule.end_date - 1)))
               /\ AssignedSlots(run.schedule) = 1..Cardinality(AssignedSlots(run.schedule))

\* a frontload run that leaves a weekday unassigned before a project starts
\* and works on that project, past its end_date too, once it has started
C16_Witness ==
    \E run \in Held : \E p \in Range(run.projects) :
        /\ run.method = "frontload"
        /\ p.start_date # None
        /\ \E k \in DOMAIN run.schedule.slots :
            /\ run.schedule.slots[k].project = None
            /\ run.schedule.slots[k].date < Val(p.start_date)
        /\ \E k \in SlotsOf(run.schedule, p) : run.schedule.slots[k].date > p.end_date

\* C17: for a Schedule and the statistics computed right after the call that
\* produced it, the statistics have one entry per project of the expanded
\* set, and for each such project p get_project_slots(p) returns slots of the
\* Schedule only, as many as the total_slots_assigned of p and as many as
\* the Schedule assigns to p
C17_ProjectSlotsMatchStatistics ==
    (result.op = "get_statistics" /\ latest # None /\ kept = None) =>
        LET run == Val(latest)
        IN  /\ Len(result.stats) = Len(run.projects)
            /\ \A i \in DOMAIN run.projects :
                LET project_slots == get_project_slots(run.schedule, run.projects[i])
                IN  /\ result.stats[i].project = run.projects[i]
                    /\ Range(project_slots) \subseteq Range(run.schedule.slots)
                    /\ Len(project_slots) = result.stats[i].total_slots_assigned
                    /\ Len(project_slots) = Assigned(run.schedule, run.projects[i])

\* statistics of a run of a project and its renewal, both with slots, next to
\* a project without any slot
C17_Witness ==
    /\ result.op = "get_statistics" /\ latest # None /\ kept = None
    /\ \E i, j, k \in DOMAIN result.stats :
        /\ result.stats[i].project.is_renewal
        /\ result.stats[i].total_slots_assigned > 0
        /\ result.stats[j].project.name = Val(result.stats[i].project.parent_name)
        /\ result.stats[j].total_slots_assigned > 0
        /\ result.stats[k].total_slots_assigned = 0

\* the Schedules held whose call had the arguments of the last get_statistics
StatisticsRuns ==
    IF result.op = "get_statistics"
    THEN {run \in Held : <<run.num_weeks, run.method>> = result.args}
    ELSE {}

\* C18: get_statistics of any Schedule a scheduler returned, also after later
\* create_schedule calls with another num_weeks or method, has one entry per
\* project of the set the Schedule was allocated from, and the
\* total_slots_assigned of its entries add up to the assigned slots of the
\* Schedule
C18_StatisticsCoverSchedule ==
    \A run \in StatisticsRuns :
        /\ Len(result.stats) = Len(run.projects)
        /\ \A i \in DOMAIN result.stats : result.stats[i].project = run.projects[i]
        /\ SumOver(DOMAIN result.stats,
                   [i \in DOMAIN result.stats |-> result.stats[i].total_slots_assigned])
            = Cardinality(AssignedSlots(run.schedule))

\* C19: fully_scheduled of a statistics entry is true exactly when its
\* total_slots_assigned is at least floor(remaining_days) of the project as
\* it was given, and so it is true for a project with floor(remaining_days) = 0
C19_FullyScheduledIffBudgetMet ==
    result.op = "get_statistics" =>
        \A i \in DOMAIN result.stats :
            /\ i <= Len(base_projects) => result.stats[i].project = base_projects[i]
            /\ fully_scheduled(result.stats[i])
                <=> result.stats[i].total_slots_assigned >= Budget(result.stats[i].project)
            /\ Budget(result.stats[i].project) = 0 => fully_scheduled(result.stats[i])

\* statistics with a project of budget 0 that has no slot and is fully
\* scheduled, and a project with slots that is short of its budget
C19_Witness ==
    /\ result.op = "get_statistics"
    /\ \E i, j \in DOMAIN result.stats :
        /\ Budget(result.stats[i].project) = 0
        /\ result.stats[i].total_slots_assigned = 0
        /\ fully_scheduled(result.stats[i])
        /\ ~fully_scheduled(result.stats[j])
        /\ result.stats[j].total_slots_assigned > 0

\* C20: a scheduler with an empty project list returns, with either method
\* and without an error, a Schedule that has one slot per weekday of the
\* horizon and no slot assigned, and get_statistics of it returns an empty list
C20_EmptyProjectList ==
    base_projects = <<>> =>
        /\ \A run \in Held :
            /\ run.projects = <<>>
            /\ {run.schedule.slots[i].date : i \in DOMAIN run.schedule.slots}
                = WeekdaysIn(start_date, start_date + 7 * run.num_weeks - 1)
            /\ Len(run.schedule.slots) = 5 * run.num_weeks
            /\ AssignedSlots(run.schedule) = {}
        /\ (result.op = "create_schedule" /\ result.args[2] \in {"paced", "frontload"})
            => result.raised = None /\ latest # None
        /\ result.op = "get_statistics" => result.raised = None /\ result.stats = <<>>

\* the statistics of a two-week paced Schedule of a scheduler without projects
C20_Witness ==
    /\ base_projects = <<>>
    /\ result.op = "get_statistics"
    /\ latest # None
    /\ Val(latest).method = "paced"
    /\ Val(latest).num_weeks = 2
    /\ Len(Val(latest).schedule.slots) = 10

\* C21: under the paced method a project with two slots or more is worked
\* on at least once every 2 weeks: any two consecutive slots of the project
\* are dated at most 14 calendar days apart
C21_PacedTwoWeekRule ==
    \A run \in Held : run.method = "paced" =>
        \A p \in Range(run.projects) :
            \A i, j \in SlotsOf(run.schedule, p) :
                (i < j /\ \A k \in SlotsOf(run.schedule, p) : ~(i < k /\ k < j))
                    => run.schedule.slots[j].date - run.schedule.slots[i].date <= 14

\* C22: a Schedule returned by create_schedule is not changed by later
\* operations: in every step a Schedule held from before stays as it was
\* returned (slots, start_date and end_date), get_statistics and a rejected
\* create_schedule leave the latest Schedule as it was, and only an accepted
\* create_schedule puts a Schedule, a new one, in its place
C22_ReturnedScheduleUnchanged ==
    [][/\ kept' \in {kept, latest}
       /\ latest' # latest =>
            /\ result'.op = "create_schedule"
            /\ result'.raised = None]_vars

\* two Schedules are held that differ in their slots, the second was made by
\* a call after the first, and statistics were taken since
C22_Witness ==
    /\ latest # None /\ kept # None
    /\ Val(latest).schedule.slots # Val(kept).schedule.slots
    /\ Val(latest).schedule.end_date # Val(kept).schedule.end_date
    /\ \E i \in DOMAIN Val(kept).schedule.slots : Val(kept).schedule.slots[i].project # None
    /\ result.op = "get_statistics"

\* C23: create_schedule and get_statistics leave the caller's projects as
\* they were: the list given to the scheduler has the same projects with the
\* same fields in the same order after every step (no renewal is added to
\* it), and the run of every call starts with floor(remaining_days) of work
\* for each of its projects
C23_CallerProjectsUnchanged ==
    [][/\ base_projects' = base_projects
       /\ latest' # None =>
            /\ SubSeq(Val(latest').projects, 1, Len(base_projects)) = base_projects
            /\ \A p \in Range(Val(latest').projects) :
                Val(latest').days[1].remaining_work[p] = Budget(p)]_vars

\* a call whose run had a renewal and used up the budget of a base project,
\* followed by a call that assigns slots to that project again
C23_Witness ==
    /\ latest # None /\ kept # None
    /\ Len(Val(kept).projects) > Len(base_projects)
    /\ \E i \in DOMAIN base_projects :
        /\ Budget(base_projects[i]) > 0
        /\ Val(kept).remaining_work[base_projects[i]] = 0
        /\ Assigned(Val(latest).schedule, base_projects[i]) = Budget(base_projects[i])


\* the weekdays of a paced run, as records of what the selection saw
PacedDays == UNION {Range(run.days) : run \in {r \in Held : r.method = "paced"}}

\* the projects that are active on a day: work left, started, not past end_date
ActiveOn(day) ==
    {p \in DOMAIN day.remaining_work :
        /\ day.remaining_work[p] > 0
        /\ p.start_date # <<>> => p.start_date[1] <= day.date
        /\ day.date <= p.end_date}

\* the number of weekdays from the day through date d
WeekdaysLeft(day, d) == Cardinality(WeekdaysIn(day.date, d))

\* the active projects with exactly as much work left as weekdays through
\* their end_date
ExactQualifiers(day) ==
    {p \in ActiveOn(day) : WeekdaysLeft(day, p.end_date) = day.remaining_work[p]}

\* the active projects with at least as much work left as weekdays through
\* their end_date
MustDoQualifiers(day) ==
    {p \in ActiveOn(day) : WeekdaysLeft(day, p.end_date) <= day.remaining_work[p]}

\* C24: on a weekday of a paced run the must-do rule applies exactly when an
\* active project has as many weekdays left through its end_date as it has
\* work left; a project with more work than weekdays left does not qualify,
\* and when a project qualifies the day is assigned to a qualifier
C24_MustDoExactly ==
    \A day \in PacedDays :
        /\ day.rule = "must_do" <=> ExactQualifiers(day) # {}
        /\ ExactQualifiers(day) # {}
            => day.project \in {Some(p) : p \in ExactQualifiers(day)}

\* C24 as it holds: the must-do rule applies exactly when an active project
\* has at least as much work left as weekdays left through its end_date, a
\* project with more work than weekdays left qualifies too, and when a
\* project qualifies the day is assigned to a qualifier
C24_MustDoAtLeast ==
    \A day \in PacedDays :
        /\ day.rule = "must_do" <=> MustDoQualifiers(day) # {}
        /\ MustDoQualifiers(day) # {}
            => day.project \in {Some(p) : p \in MustDoQualifiers(day)}

\* a day on which one project has exactly the weekdays it needs and the day
\* goes to another, which has more work left than weekdays
C24_Witness ==
    \E day \in PacedDays :
        /\ ExactQualifiers(day) # {}
        /\ day.rule = "must_do"
        /\ day.project # None
        /\ Val(day.project) \notin ExactQualifiers(day)
        /\ Val(day.project) \in MustDoQualifiers(day)

\* the deadlines D of active projects by which the work due is at least the
\* weekdays left through D
TrippedDeadlines(day) ==
    {D \in {p.end_date : p \in ActiveOn(day)} :
        SumOver({p \in ActiveOn(day) : p.end_date <= D}, day.remaining_work)
            >= WeekdaysLeft(day, D)}

\* the active projects due by the earliest tripped deadline
ForcedSet(day) ==
    IF TrippedDeadlines(day) = {} THEN {}
    ELSE {p \in ActiveOn(day) :
            \A D \in TrippedDeadlines(day) :
                (\A E \in TrippedDeadlines(day) : D <= E) => p.end_date <= D}

\* the active projects with pacing credit above 1e-9
WithCredit(day) == {p \in ActiveOn(day) : FloatPositive(day.pacing_credit[p])}

\* C25: the paced selection applies its rules in strict precedence: on a day
\* with a must-do qualifier the project selected is a must-do qualifier,
\* whatever the credits and the forced set are; on a day with a forced set
\* and no must-do qualifier it is a member of the forced set, also when its
\* credit is not positive or a project outside the set has the highest
\* credit; the credit decides only when there is neither, and a day is
\* unassigned only when no rule selects
C25_RulePrecedence ==
    \A day \in PacedDays :
        /\ MustDoQualifiers(day) # {}
            => /\ day.rule = "must_do"
               /\ day.project \in {Some(p) : p \in MustDoQualifiers(day)}
        /\ (MustDoQualifiers(day) = {} /\ ForcedSet(day) # {})
            => /\ day.rule = "forced"
               /\ day.project \in {Some(p) : p \in ForcedSet(day)}
        /\ (MustDoQualifiers(day) = {} /\ ForcedSet(day) = {} /\ WithCredit(day) # {})
            => /\ day.rule = "pacing"
               /\ day.project \in {Some(p) : p \in WithCredit(day)}
        /\ (MustDoQualifiers(day) = {} /\ ForcedSet(day) = {} /\ WithCredit(day) = {})
            => day.rule = "none" /\ day.project = None

\* a run of three projects with a day that has a forced set, no must-do
\* qualifier and a project outside the set whose credit is above that of every
\* member, a day with a must-do qualifier on which another active project has
\* more credit than every qualifier, and a day with a must-do qualifier on
\* which the forced set has a member that is no qualifier
C25_Witness ==
    \E forced, must, both \in PacedDays :
        /\ MustDoQualifiers(forced) = {}
        /\ ForcedSet(forced) # {}
        /\ forced.project \in {Some(p) : p \in ForcedSet(forced)}
        /\ \E q \in ActiveOn(forced) \ ForcedSet(forced) :
                \A p \in ForcedSet(forced) :
                    FloatLess(forced.pacing_credit[p], forced.pacing_credit[q])
        /\ must.project \in {Some(p) : p \in MustDoQualifiers(must)}
        /\ \E q \in ActiveOn(must) \ MustDoQualifiers(must) :
                \A p \in MustDoQualifiers(must) :
                    FloatLess(must.pacing_credit[p], must.pacing_credit[q])
        /\ both.project \in {Some(p) : p \in MustDoQualifiers(both)}
        /\ ForcedSet(both) \ MustDoQualifiers(both) # {}

\* the key of the total order among must-do qualifiers and among the members
\* of a forced set: weekdays left through end_date minus remaining work, then
\* end_date, then priority (highest first), then name
SlackOrderKey(day, p) ==
    <<WeekdaysLeft(day, p.end_date) - day.remaining_work[p], p.end_date, -p.priority,
      NameRank(p.name)>>

\* the member of a non-empty set of active projects that is first in that order
FirstBySlack(day, S) ==
    CHOOSE p \in S : \A q \in S \ {p} : TupleLess(SlackOrderKey(day, p), SlackOrderKey(day, q))

\* C26: among several must-do qualifiers, and among the members of a forced
\* set, the paced method selects the minimum under the total order smallest
\* (weekdays left through end_date minus remaining work), then earliest
\* end_date, then highest priority, then smallest name, wherever the projects
\* stand in the input list
C26_FirstInSlackOrder ==
    \A day \in PacedDays :
        /\ MustDoQualifiers(day) # {}
            => day.project = Some(FirstBySlack(day, MustDoQualifiers(day)))
        /\ (MustDoQualifiers(day) = {} /\ ForcedSet(day) # {})
            => day.project = Some(FirstBySlack(day, ForcedSet(day)))

\* a run with a must-do day and a forced day on each of which the project
\* selected has a qualifier (a member) beside it with the same slack and the
\* same end_date, a lower priority and a smaller name, which stands first in
\* the input list
C26_Witness ==
    \E must, forced \in PacedDays :
        /\ must.project \in {Some(p) : p \in MustDoQualifiers(must)}
        /\ MustDoQualifiers(forced) = {}
        /\ forced.project \in {Some(p) : p \in ForcedSet(forced)}
        /\ \A day \in {must, forced} :
            LET q == base_projects[1]
                p == Val(day.project)
            IN  /\ q \in MustDoQualifiers(day) \cup ForcedSet(day)
                /\ q # p
                /\ SlackOrderKey(day, q)[1] = SlackOrderKey(day, p)[1]
                /\ q.end_date = p.end_date
                /\ q.priority < p.priority
                /\ NameRank(q.name) < NameRank(p.name)

\* C27: on a weekday of a paced run with no must-do qualifier, if for some
\* deadline D of an active project the work left of the active projects due
\* by D is at least the weekdays from the day through D, the day is assigned
\* to an active project due by the earliest such D; a project due later is
\* not selected that day
C27_ForcedByEarliestDeadline ==
    \A day \in PacedDays :
        (MustDoQualifiers(day) = {} /\ TrippedDeadlines(day) # {})
            => /\ day.project # None
               /\ Val(day.project) \in ActiveOn(day)
               /\ \A D \in TrippedDeadlines(day) : Val(day.project).end_date <= D

\* a day without must-do qualifier on which two deadlines trip, a project due
\* by the later one only is active and has less slack than the project
\* selected, and the day goes to a project due by the earlier one
C27_Witness ==
    \E day \in PacedDays :
        /\ MustDoQualifiers(day) = {}
        /\ Cardinality(TrippedDeadlines(day)) >= 2
        /\ day.project # None
        /\ \A D \in TrippedDeadlines(day) : Val(day.project).end_date <= D
        /\ \E q \in ActiveOn(day) :
            /\ q.end_date \in TrippedDeadlines(day)
            /\ q.end_date > Val(day.project).end_date
            /\ SlackOrderKey(day, q)[1] < SlackOrderKey(day, Val(day.project))[1]

\* p comes before q under the pacing rule: more credit, or the same credit
\* and the earlier end_date, then the higher priority, then the smaller name
BeforeByCredit(day, p, q) ==
    \/ FloatLess(day.pacing_credit[q], day.pacing_credit[p])
    \/ /\ day.pacing_credit[q] = day.pacing_credit[p]
       /\ TupleLess(<<p.end_date, -p.priority, NameRank(p.name)>>,
                    <<q.end_date, -q.priority, NameRank(q.name)>>)

\* C28: on a weekday of a paced run with no must-do qualifier and no forced
\* set the project selected is, among the active projects with credit above
\* 1e-9, the one with the highest credit, ties broken by earliest end_date,
\* then highest priority, then smallest name; an active project with credit
\* of 1e-9 or less is never selected by this rule
C28_PacingByCredit ==
    \A day \in PacedDays :
        (MustDoQualifiers(day) = {} /\ ForcedSet(day) = {})
            => /\ day.project # None => Val(day.project) \in WithCredit(day)
               /\ WithCredit(day) # {}
                    => /\ day.project # None
                       /\ \A q \in WithCredit(day) \ {Val(day.project)} :
                            BeforeByCredit(day, Val(day.project), q)

\* a run with a pacing day on which the project selected has the same credit
\* and the same end_date as another with a lower priority and a smaller name,
\* a pacing day on which it has more credit than a project due earlier, and a
\* day without must-do qualifier and forced set on which an active project
\* has a credit above zero that is not above 1e-9
C28_Witness ==
    \E tied, ahead, tiny \in PacedDays :
        /\ \A day \in {tied, ahead, tiny} : MustDoQualifiers(day) = {} /\ ForcedSet(day) = {}
        /\ tied.project # None
        /\ \E q \in WithCredit(tied) :
            /\ tied.pacing_credit[q] = tied.pacing_credit[Val(tied.project)]
            /\ q.end_date = Val(tied.project).end_date
            /\ q.priority < Val(tied.project).priority
            /\ NameRank(q.name) < NameRank(Val(tied.project).name)
        /\ ahead.project # None
        /\ \E q \in WithCredit(ahead) :
            /\ FloatLess(ahead.pacing_credit[q], ahead.pacing_credit[Val(ahead.project)])
            /\ q.end_date < Val(ahead.project).end_date
        /\ \E q \in ActiveOn(tiny) :
            /\ FloatLess(Zero, tiny.pacing_credit[q])
            /\ ~FloatPositive(tiny.pacing_credit[q])
            /\ tiny.project # Some(q)

\* the paced runs whose Schedule the caller holds
PacedRuns == {run \in Held : run.method = "paced"}

\* remaining_work and pacing_credit as the i-th weekday of a run leaves them
WorkAfter(run, i) ==
    IF i < Len(run.days) THEN run.days[i + 1].remaining_work ELSE run.remaining_work

CreditAfter(run, i) ==
    IF i < Len(run.days) THEN run.days[i + 1].carried ELSE run.pacing_credit

\* C29: a weekday of a paced run on which no project is a must-do qualifier,
\* there is no forced set and no active project has pacing credit above 1e-9
\* is left unassigned, also when an active project has work left, and no
\* project's remaining work changes on that day
C29_NoRuleLeavesUnassigned ==
    \A run \in PacedRuns :
        \A i \in DOMAIN run.days :
            LET day == run.days[i]
            IN  (MustDoQualifiers(day) = {} /\ ForcedSet(day) = {} /\ WithCredit(day) = {})
                    => /\ day.project = None
                       /\ ScheduledSlot(day.date, None) \in Range(run.schedule.slots)
                       /\ WorkAfter(run, i) = day.remaining_work

\* a day left unassigned on which an active project has work left and a
\* credit above zero that is not above 1e-9, followed by a day that is assigned
C29_Witness ==
    \E run \in PacedRuns :
        \E i \in DOMAIN run.days :
            LET day == run.days[i]
            IN  /\ MustDoQualifiers(day) = {} /\ ForcedSet(day) = {} /\ WithCredit(day) = {}
                /\ day.project = None
                /\ \E p \in ActiveOn(day) : FloatLess(Zero, day.pacing_credit[p])
                /\ i < Len(run.days)
                /\ run.days[i + 1].project # None
                /\ run.days[i + 1].remaining_work = day.remaining_work

\* the pacing rates of a run, fixed before its first day
RateOf(run) == pacing_rate(run.projects, initial_work(run.projects))

\* C30: when the paced method assigns a weekday to project p, exactly p's
\* remaining work decreases by 1 and exactly p's pacing credit decreases by
\* 1.0, also below zero; the remaining work of every other project is
\* unchanged, and the credit of every other project changes only by that
\* day's accrual, its rate when it is active and nothing when it is not
C30_AssignmentChargesOneProject ==
    \A run \in PacedRuns :
        \A i \in DOMAIN run.days :
            LET day == run.days[i]
                accrued == [q \in DOMAIN day.carried |->
                               IF q \in ActiveOn(day)
                               THEN FloatAdd(day.carried[q], RateOf(run)[q])
                               ELSE day.carried[q]]
            IN  day.project # None =>
                    \A q \in DOMAIN day.remaining_work :
                        IF q = Val(day.project)
                        THEN /\ WorkAfter(run, i)[q] = day.remaining_work[q] - 1
                             /\ CreditAfter(run, i)[q] = FloatAdd(accrued[q], MinusOne)
                        ELSE /\ WorkAfter(run, i)[q] = day.remaining_work[q]
                             /\ CreditAfter(run, i)[q] = accrued[q]

\* a day assigned to a project whose credit falls below zero by it, while
\* another project accrues credit and a third, not active, keeps its credit
C30_Witness ==
    \E run \in PacedRuns :
        \E i \in DOMAIN run.days :
            LET day == run.days[i]
            IN  /\ day.project # None
                /\ FloatLess(CreditAfter(run, i)[Val(day.project)], Zero)
                /\ WorkAfter(run, i)[Val(day.project)] = day.remaining_work[Val(day.project)] - 1
                /\ \E q \in ActiveOn(day) \ {Val(day.project)} :
                        FloatLess(day.carried[q], CreditAfter(run, i)[q])
                /\ \E q \in DOMAIN day.carried \ ActiveOn(day) :
                        /\ q # Val(day.project)
                        /\ day.carried[q] # Zero
                        /\ CreditAfter(run, i)[q] = day.carried[q]

\* the projects that may accrue on a day: work left, the day not before the
\* effective start and not after end_date
Accruing(day) ==
    {p \in DOMAIN day.remaining_work :
        /\ day.remaining_work[p] > 0
        /\ day.date >= (IF p.start_date = None THEN start_date ELSE Val(p.start_date))
        /\ day.date <= p.end_date}

\* C31: in a paced run the credit accrues once per weekday, before that day's
\* selection, by the project's fixed rate for exactly the active projects;
\* finished, not yet started and expired projects accrue nothing; the run
\* starts without credit, and over a Saturday and Sunday no credit, no
\* remaining work and no slot changes: the next weekday starts from what the
\* last one left, and no slot is dated on a weekend
C31_AccrualOnWeekdaysOnly ==
    \A run \in PacedRuns :
        /\ \A i \in DOMAIN run.days :
            LET day == run.days[i]
            IN  /\ \A q \in DOMAIN day.carried :
                    day.pacing_credit[q] =
                        IF q \in Accruing(day)
                        THEN FloatAdd(day.carried[q], RateOf(run)[q])
                        ELSE day.carried[q]
                /\ i = 1 => \A q \in DOMAIN day.carried : day.carried[q] = Zero
                /\ i < Len(run.days) =>
                    LET next == run.days[i + 1]
                    IN  \A q \in DOMAIN day.carried :
                            IF day.project = Some(q)
                            THEN /\ next.carried[q] = FloatAdd(day.pacing_credit[q], MinusOne)
                                 /\ next.remaining_work[q] = day.remaining_work[q] - 1
                            ELSE /\ next.carried[q] = day.pacing_credit[q]
                                 /\ next.remaining_work[q] = day.remaining_work[q]
        /\ Len(run.schedule.slots) = Len(run.days)
        /\ \A i \in DOMAIN run.days :
            /\ run.schedule.slots[i].date = run.days[i].date
            /\ Weekday(run.days[i].date) < 5

\* a Friday followed in the run by a Monday, on which one project accrues,
\* one has work left and is past its end_date, and one has not started yet
C31_Witness ==
    \E run \in PacedRuns :
        \E i \in DOMAIN run.days :
            LET day == run.days[i]
            IN  /\ i < Len(run.days)
                /\ run.days[i + 1].date = day.date + 3
                /\ \E q \in Accruing(run.days[i + 1]) :
                        FloatLess(run.days[i + 1].carried[q], run.days[i + 1].pacing_credit[q])
                /\ \E j \in DOMAIN run.days, q \in DOMAIN day.carried :
                        /\ run.days[j].remaining_work[q] > 0
                        /\ run.days[j].date > q.end_date
                        /\ run.days[j].carried[q] # Zero
                /\ \E j \in DOMAIN run.days, q \in DOMAIN day.carried :
                        /\ q.start_date # None
                        /\ run.days[j].date < Val(q.start_date)
                        /\ run.days[j].remaining_work[q] > 0

\* C32: in a paced run every slot assigned to a project p is dated within p's
\* window, max(horizon start, p.start_date) <= date <= p.end_date, and a slot
\* of a renewal is dated after the end_date of its parent
C32_PacedSlotsWithinWindow ==
    \A run \in PacedRuns :
        \A slot \in Range(run.schedule.slots) :
            slot.project # None =>
                LET p == Val(slot.project)
                IN  /\ start_date <= slot.date
                    /\ p.start_date # None => Val(p.start_date) <= slot.date
                    /\ slot.date <= p.end_date
                    /\ p.is_renewal =>
                        \A b \in Range(base_projects) :
                            Some(b.name) = p.parent_name => b.end_date < slot.date

\* a run that gives a renewal its first slot on the Monday after its
\* parent's end_date and leaves a day after a project's end_date unassigned
\* although that project has work left
C32_Witness ==
    \E run \in PacedRuns :
        /\ \E day \in Range(run.days) :
            /\ day.project # None
            /\ Val(day.project).is_renewal
            /\ Val(day.project).start_date = Some(day.date - 2)
            /\ day.remaining_work[Val(day.project)] = Budget(Val(day.project))
        /\ \E day \in Range(run.days) :
            /\ day.project = None
            /\ \E p \in DOMAIN day.remaining_work :
                day.remaining_work[p] > 0 /\ p.end_date < day.date

\* the premise of the paced feasibility guarantee: every project of the run
\* may start at the horizon start, every end_date lies within the horizon,
\* and for every deadline D the budgets due by D fit the weekdays from the
\* horizon start through D
Feasible(run) ==
    /\ \A p \in Range(run.projects) :
        /\ StartsWithHorizon(p)
        /\ start_date <= p.end_date
        /\ p.end_date < start_date + 7 * run.num_weeks
    /\ \A D \in {p.end_date : p \in Range(run.projects)} :
        SumOver({p \in Range(run.projects) : p.end_date <= D},
                [p \in Range(run.projects) |-> Budget(p)])
            <= Cardinality(WeekdaysIn(start_date, D))

\* C33: a paced run whose projects may all start at the horizon start, are
\* all due within the horizon and fit, deadline by deadline, the weekdays
\* from the horizon start gives every project exactly floor(remaining_days)
\* slots, all dated on or before its end_date, and emits no diagnostic
C33_PacedFeasibilityGuarantee ==
    \A run \in PacedRuns :
        Feasible(run) =>
            /\ \A p \in Range(run.projects) :
                /\ Assigned(run.schedule, p) = Budget(p)
                /\ \A i \in SlotsOf(run.schedule, p) : run.schedule.slots[i].date <= p.end_date
            /\ run.warnings = <<>>

\* a feasible run of three projects with different deadlines and work to do,
\* the budgets due by one of the deadlines filling every weekday through it,
\* with a day decided by the forced set and a day decided by the must-do rule
C33_Witness ==
    \E run \in PacedRuns :
        /\ Feasible(run)
        /\ Cardinality({p.end_date : p \in Range(run.projects)}) = 3
        /\ \A p \in Range(run.projects) : Assigned(run.schedule, p) = Budget(p) /\ Budget(p) > 0
        /\ \E D \in {p.end_date : p \in Range(run.projects)} :
            SumOver({p \in Range(run.projects) : p.end_date <= D},
                    [p \in Range(run.projects) |-> Budget(p)])
                = Cardinality(WeekdaysIn(start_date, D))
        /\ \E day \in Range(run.days) : day.rule = "forced"
        /\ \E day \in Range(run.days) : day.rule = "must_do"

\* the slots of a Schedule assigned to p and dated on or before its end_date
\* number floor(remaining_days)
MetByDeadline(run, p) ==
    Cardinality({i \in SlotsOf(run.schedule, p) : run.schedule.slots[i].date <= p.end_date})
        = Budget(p)

\* C34: after a run of either method, a project whose end_date lies within
\* the horizon and for which no deadline-miss diagnostic is emitted has
\* floor(remaining_days) slots dated on or before its end_date
C34_SilentMeansMetByDeadline ==
    \A run \in Held :
        \A p \in Range(run.projects) :
            (/\ start_date <= p.end_date
             /\ p.end_date < start_date + 7 * run.num_weeks
             /\ \A i \in DOMAIN run.warnings : run.warnings[i].name # p.name)
                => MetByDeadline(run, p)

\* the number of slots assigned to p before the i-th weekday of a run
AssignedBefore(run, p, i) ==
    Cardinality({j \in SlotsOf(run.schedule, p) : j < i})

\* C35: at every day of a run of either allocator and for every project with
\* remaining_days >= 0, the remaining work is >= 0, floor(remaining_days) is
\* the remaining work plus the number of slots assigned to the project so
\* far, and a project whose remaining work is 0 is not assigned a slot
C35_WorkAccounting ==
    \A run \in Held :
        \A p \in {q \in Range(run.projects) : q.remaining_days >= 0} :
            /\ \A i \in DOMAIN run.days :
                /\ run.days[i].remaining_work[p] >= 0
                /\ Budget(p) = run.days[i].remaining_work[p] + AssignedBefore(run, p, i)
                /\ run.days[i].remaining_work[p] = 0 => run.schedule.slots[i].project # Some(p)
            /\ run.remaining_work[p] >= 0
            /\ Budget(p) = run.remaining_work[p] + Assigned(run.schedule, p)

\* a run with a project of 1.5 days that gets its one slot and is then passed
\* over on a later day within its window, beside a project without budget
\* that gets none
C35_Witness ==
    \E run \in Held :
        \E p, q \in Range(run.projects) :
            /\ p.remaining_days = 3
            /\ Assigned(run.schedule, p) = 1
            /\ \E i \in DOMAIN run.days :
                /\ run.days[i].remaining_work[p] = 0
                /\ run.days[i].date <= p.end_date
                /\ run.days[i].project = None
            /\ q.remaining_days = 0
            /\ Assigned(run.schedule, q) = 0
            /\ \E i \in DOMAIN run.days : run.days[i].date <= q.end_date

\* the weekdays of p's window: from the horizon start, or p's start_date when
\* it is later, through its end_date
WindowDays(p) == WeekdaysIn(WindowStart(p), p.end_date)

C37_CountWeekdaysByDay ==
    result.op = "_count_weekdays_inclusive" =>
        LET start == result.args[1]
            end == result.args[2]
        IN  /\ result.value = Cardinality({d \in start..end : d % 7 \in 0..4})
            /\ end < start => result.value = 0

\* a count over a range that starts on a Saturday and runs into a third
\* week, and comes to ten weekdays
C37_Witness ==
    /\ result.op = "_count_weekdays_inclusive"
    /\ result.args[1] % 7 = 5
    /\ result.args[2] - result.args[1] = 15
    /\ result.value = 10

\* the projects of projects.json as listed, none while the file is absent
ListedIn(file) == IF file = None THEN <<>> ELSE Val(file)

\* the class of an imported dictionary against the stored list
ClassOf(listed, new_proj) ==
    IF \A i \in DOMAIN listed : listed[i].name # new_proj.name THEN "added"
    ELSE IF \E i \in DOMAIN listed :
                /\ listed[i].name = new_proj.name
                /\ listed[i].remaining_days # new_proj.remaining_days
         THEN "updated"
         ELSE "unchanged"

\* how many of the imported dictionaries are of the class
CountOf(listed, new_projects, class) ==
    Cardinality({j \in DOMAIN new_projects : ClassOf(listed, new_projects[j]) = class})

\* C38: update_projects_json counts every imported project once, as added when
\* its name is not stored, as updated when the name is stored with another
\* remaining_days, as unchanged otherwise, so the three counts add up to the
\* number of imported projects; of a stored project whose name is imported
\* only remaining_days takes the imported value and the other fields keep
\* theirs, a stored project whose name is not imported is kept as it is, and
\* the projects added are the only others in the file.
C38_ImportClassifiesAndMerges ==
    [][result'.op = "update_projects_json" =>
        LET before == ListedIn(projects_file)
            after == ListedIn(projects_file')
            new_projects == result'.args[1]
            stats == result'.value
        IN  /\ stats.added = CountOf(before, new_projects, "added")
            /\ stats.updated = CountOf(before, new_projects, "updated")
            /\ stats.unchanged = CountOf(before, new_projects, "unchanged")
            /\ stats.added + stats.updated + stats.unchanged = Len(new_projects)
            /\ projects_file' # None
            /\ Len(after) = Len(before) + stats.added
            /\ \A i \in DOMAIN before :
                  LET imported == {j \in DOMAIN new_projects :
                                      new_projects[j].name = before[i].name}
                  IN  IF imported = {} THEN after[i] = before[i]
                      ELSE \E j \in imported :
                              after[i] = [before[i] EXCEPT
                                            !.remaining_days = new_projects[j].remaining_days]
            /\ \A j \in DOMAIN new_projects :
                  ClassOf(before, new_projects[j]) = "added" =>
                      \E i \in DOMAIN after : after[i] = new_projects[j]
    ]_vars

\* an import of three projects has added one, updated one and left one
\* unchanged, and the two stored ones still end on day 4, not on the day 11
\* the import gave for them
C38_Witness ==
    /\ result.op = "update_projects_json"
    /\ Len(result.args[1]) = 3
    /\ result.value = [added |-> 1, updated |-> 1, unchanged |-> 1]
    /\ Len(Val(projects_file)) = 3
    /\ \E i, j \in DOMAIN Val(projects_file) :
          /\ i # j
          /\ Val(projects_file)[i].end_date = 4
          /\ Val(projects_file)[j].end_date = 4
          /\ Val(projects_file)[i].remaining_days # Val(projects_file)[j].remaining_days

\* C39: after any calls of complete() and uncomplete() a Task is completed
\* exactly when its completed_at is set; complete() sets completed and a
\* completion time, uncomplete() clears both, and neither changes the title,
\* the description or created_at.
C39_CompletedIffCompletedAt ==
    /\ [](task # None => (Val(task).completed <=> Val(task).completed_at # None))
    /\ [][/\ result'.op = "complete" =>
                /\ Val(task').completed
                /\ Val(task').completed_at # None
          /\ result'.op = "uncomplete" =>
                /\ ~Val(task').completed
                /\ Val(task').completed_at = None
          /\ result'.op \in {"complete", "uncomplete"} =>
                /\ Val(task').title = Val(task).title
                /\ Val(task').description = Val(task).description
                /\ Val(task').created_at = Val(task).created_at
         ]_vars

\* a Task with a description, constructed at time 1, stands completed at
\* time 3 after a call of complete()
C39_Witness ==
    /\ result.op = "complete"
    /\ task # None
    /\ Val(task).completed
    /\ Val(task).description # ""
    /\ Val(task).created_at = 1
    /\ Val(task).completed_at = Some(3)
====
